---- MODULE Spec2Model ----
(***************************************************************************)
(* A model of the dsfs save pipeline of the dataset repository:            *)
(*   - WriteDataset (src/dsfs/dataset.go 469-625): the batch write with    *)
(*     its event-driven completion consumer;                               *)
(*   - prepareDataset (src/dsfs/dataset.go 211-288): the fan-out of the    *)
(*     body to three analyzers over three pipes and the join on `done`;    *)
(*   - cleanTitleAndMessage (src/dsfs/dataset.go 434-463), CreateDataset   *)
(*     (176-201) and LoadDatasetRefs (43-73).                              *)
(* Strings model JSON text and store addresses, so that encodings are      *)
(* computed and not assumed.                                               *)
(***************************************************************************)
EXTENDS Integers, Sequences, FiniteSets, TLC

VARIABLES
    \* ---- WriteDataset ----
    input,        \* the arguments of the call: caller's dataset, its objects, the body file
    heap,         \* sub-document objects by pointer id (0 is the nil pointer)
    dsHeap,       \* Dataset structs by pointer: "caller" and the copy "cp"
    dsPtr,        \* the local variable ds of WriteDataset: which struct it points to
    adder,        \* the store batch: whether NewAdder was called, files added, events delivered, closed
    fileTasks,    \* the pending-file counter
    addedDataset, \* the local flag of the same name (never set by the code)
    path,         \* the local variable path, returned to the caller
    werr,         \* the error WriteDataset returns ("" is nil)
    wpc,          \* position of WriteDataset: "call", "consume", "returned"
    \* ---- prepareDataset ----
    pinput,       \* the arguments of the call: df (or nil), ds.PreviousPath, the stored previous body
    body,         \* the bytes of the data file df
    prod,         \* producer goroutine: [pc, pos, pipe]
    an,           \* the three analyzer goroutines, by name: [pc, got, fail]
    mu,           \* holder of the mutex ("" is unlocked)
    structure,    \* the fields of ds.Structure the analyzers write
    buf,          \* the bytes.Buffer filled by setChecksumAndStats
    caller,       \* prepareDataset itself: [pc, received, err, file]
    reads,        \* number of Read calls the producer made on df that returned data
    \* ---- cleanTitleAndMessage ----
    clean,        \* the call: [pc, sTitle, sMsg, diffDescription] with *sTitle, *sMsg updated on return
    \* ---- CreateDataset ----
    create,       \* the call: its arguments, position, error, the steps run and the store accesses made
    \* ---- LoadDatasetRefs ----
    load,         \* the call: the path, the fetches made with their results, data, err, the decoded dataset
    \* ---- DerefDataset ----
    deref,        \* the call: the dataset's five slots, position, the store reads made, the error
    \* ---- MarshalJSON / UnmarshalJSON / IsEmpty of the sub-documents ----
    codec,        \* the value at hand, the bytes it encoded to, the value decoded from them
    \* ---- Assign of the sub-documents ----
    asg,          \* receiver, arguments still to merge, the maps on the heap
    \* ---- AbstractColumnName, DataFormat ----
    pureCall      \* one call of a function of the package: its name, argument and result

wvars == <<input, heap, dsHeap, dsPtr, adder, fileTasks, addedDataset, path, werr, wpc>>
pvars == <<pinput, body, prod, an, mu, structure, buf, caller, reads>>
xvars == <<clean, create, load>>
yvars == <<deref, codec, asg>>
zvars == <<pureCall>>
vars == <<wvars, pvars, xvars, yvars, zvars>>

(***************************************************************************)
(* Bounds of the model.                                                    *)
(***************************************************************************)
\* longest body, in bytes, the producer copies
MaxBody == 2

(***************************************************************************)
(* Names of the package files.                                             *)
(***************************************************************************)
PackageFileDataset == "dataset.json"
PackageFileStructure == "structure.json"
PackageFileMeta == "meta.json"
PackageFileCommit == "commit.json"
PackageFileTransform == "transform.json"
PackageFileViz == "viz.json"
transformScriptFilename == "transform_script"
vizScriptFilename == "viz_script"

Kinds == {"meta", "structure", "transform", "commit", "viz"}

KindIdx(k) ==
    CASE k = "meta" -> 1
      [] k = "structure" -> 2
      [] k = "transform" -> 3
      [] k = "commit" -> 4
      [] k = "viz" -> 5

\* pointer ids: the caller's objects, the objects of the copy, the references
\* allocated by New<Kind>Ref in the event consumer
CallerObj(k) == KindIdx(k)
CopyObj(k) == 5 + KindIdx(k)
RefObj(k) == 10 + KindIdx(k)
ObjIds == 1..15

(***************************************************************************)
(* Sub-document values.  One record shape serves the five kinds:           *)
(*   path       the private address field                                  *)
(*   kind       Structure.Kind / Transform.Qri                             *)
(*   fields     the remaining scalar fields (Checksum, Entries, Length,    *)
(*              Syntax, Data, ...), "" when all are zero                   *)
(*   format     Structure.Format ("" is UnknownDataFormat)                 *)
(*   encoding   Structure.Encoding / Structure.Schema                      *)
(*   script     Transform.Script / Viz.Script ("" is nil)                  *)
(*   scriptPath Transform.ScriptPath / Viz.ScriptPath                      *)
(*   resources  Transform.Resources: the paths of the datasets bound to    *)
(*              the names a, b, ... in order (<<>> is nil)                 *)
(***************************************************************************)
ZeroObj ==
    [path |-> "", kind |-> "", fields |-> "", format |-> "", encoding |-> "",
     script |-> "", scriptPath |-> "", resources |-> <<>>]

KindStructure == "st:0"
KindTransform == "tf:0"

NewStructureRef(p) == [ZeroObj EXCEPT !.path = p, !.kind = KindStructure]
NewTransformRef(p) == [ZeroObj EXCEPT !.path = p]
\* NewMetaRef, NewCommitRef, NewVizRef
NewSubdocRef(p) == [ZeroObj EXCEPT !.path = p]

NewRef(k, p) ==
    CASE k = "structure" -> NewStructureRef(p)
      [] k = "transform" -> NewTransformRef(p)
      [] OTHER -> NewSubdocRef(p)

StructureIsEmpty(s) ==
    /\ s.fields = ""
    /\ s.encoding = ""
    /\ s.format = ""

TransformIsEmpty(q) ==
    /\ q.fields = ""
    /\ q.resources = <<>>

\* Transform and Viz of the version WriteDataset is written against carry
\* Script and ScriptPath; ScriptPath is a populated field
ScriptedIsEmpty(q) ==
    /\ TransformIsEmpty(q)
    /\ q.scriptPath = ""

SubdocIsEmpty(o) == o.fields = "" /\ o.scriptPath = ""

IsEmpty(k, o) ==
    CASE k = "structure" -> StructureIsEmpty(o)
      [] k = "transform" -> ScriptedIsEmpty(o)
      [] OTHER -> SubdocIsEmpty(o)

(***************************************************************************)
(* JSON text.                                                              *)
(***************************************************************************)
Quote(s) == "\"" \o s \o "\""

\* "name":value, or nothing for an omitted (omitempty) field
Member(name, value) == IF value = "" THEN "" ELSE Quote(name) \o ":" \o value

RECURSIVE JoinMembers(_)
JoinMembers(ms) ==
    IF ms = <<>> THEN ""
    ELSE LET rest == JoinMembers(Tail(ms)) IN
         IF Head(ms) = "" THEN rest
         ELSE IF rest = "" THEN Head(ms)
         ELSE Head(ms) \o "," \o rest

Object(ms) == "{" \o JoinMembers(ms) \o "}"

StringMember(name, s) == Member(name, IF s = "" THEN "" ELSE Quote(s))

\* the bind-names of the first resources, in order of appearance
BindName(i) == CASE i = 1 -> "a" [] i = 2 -> "b" [] i = 3 -> "c" [] OTHER -> "d"

\* the resources map: keys in sorted order, each dataset a reference by path
ResourcesJSON(rs) ==
    IF rs = <<>> THEN ""
    ELSE Object([i \in 1..Len(rs) |-> Quote(BindName(i)) \o ":" \o Quote(rs[i])])

\* DataFormat.MarshalJSON: no bytes at all for the unknown format
DataFormatMarshalJSON(f) == IF f = "" THEN "" ELSE Quote(f)

\* Structure.MarshalJSON: [err, data]
StructureMarshalJSON(s) ==
    IF s.path # "" /\ s.encoding = ""
    THEN [err |-> "", data |-> Quote(s.path)]
    ELSE IF DataFormatMarshalJSON(s.format) = ""
    THEN [err |-> "json: error calling MarshalJSON for type dataset.DataFormat", data |-> ""]
    ELSE [err |-> "",
          data |-> Object(<<StringMember("checksum", s.fields),
                            StringMember("encoding", s.encoding),
                            Member("format", DataFormatMarshalJSON(s.format)),
                            StringMember("kind", IF s.kind = "" THEN KindStructure ELSE s.kind)>>)]

TransformMarshalJSONObject(q) ==
    Object(<<StringMember("qri", IF q.kind = "" THEN KindTransform ELSE q.kind),
             Member("resources", ResourcesJSON(q.resources)),
             StringMember("scriptPath", q.scriptPath),
             StringMember("syntax", q.fields)>>)

TransformMarshalJSON(q) ==
    IF q.path # "" /\ ScriptedIsEmpty(q)
    THEN [err |-> "", data |-> Quote(q.path)]
    ELSE [err |-> "", data |-> TransformMarshalJSONObject(q)]

\* Meta, Commit and Viz: the dual-mode encoding of the reference model
SubdocMarshalJSON(k, o) ==
    IF o.path # "" /\ SubdocIsEmpty(o)
    THEN [err |-> "", data |-> Quote(o.path)]
    ELSE [err |-> "",
          data |-> Object(<<StringMember("qri", k), StringMember("scriptPath", o.scriptPath),
                            StringMember("value", o.fields)>>)]

MarshalJSON(k, o) ==
    CASE k = "structure" -> StructureMarshalJSON(o)
      [] k = "transform" -> TransformMarshalJSON(o)
      [] OTHER -> SubdocMarshalJSON(k, o)

(***************************************************************************)
(* Assign: the merge of the reference model.                               *)
(***************************************************************************)
Overwrite(old, new) == IF new # "" THEN new ELSE old

\* maps merge key by key: the keys are the positions a, b, ...
MergeMap(m, m2) ==
    [i \in 1..(IF Len(m) > Len(m2) THEN Len(m) ELSE Len(m2)) |->
        IF i <= Len(m2) THEN m2[i] ELSE m[i]]

StructureAssign(s, st) ==
    [s EXCEPT !.path = Overwrite(@, st.path),
              !.fields = Overwrite(@, st.fields),
              !.encoding = Overwrite(@, st.encoding),
              !.format = Overwrite(@, st.format),
              !.kind = Overwrite(@, st.kind)]

TransformAssign(q, q2) ==
    [q EXCEPT !.path = Overwrite(@, q2.path),
              !.fields = Overwrite(@, q2.fields),
              !.kind = Overwrite(@, q2.kind),
              !.resources = IF q2.resources # <<>> THEN MergeMap(@, q2.resources) ELSE @]

\* Meta.Assign, Commit.Assign, Viz.Assign
SubdocAssign(o, o2) ==
    [o EXCEPT !.path = Overwrite(@, o2.path),
              !.fields = Overwrite(@, o2.fields),
              !.kind = Overwrite(@, o2.kind)]

\* the Script and ScriptPath fields of Transform and Viz merge like the others
ScriptAssign(o, o2) ==
    [o EXCEPT !.script = Overwrite(@, o2.script),
              !.scriptPath = Overwrite(@, o2.scriptPath)]

Assign(k, o, o2) ==
    CASE k = "structure" -> StructureAssign(o, o2)
      [] k = "transform" -> ScriptAssign(TransformAssign(o, o2), o2)
      [] k = "viz" -> ScriptAssign(SubdocAssign(o, o2), o2)
      [] OTHER -> SubdocAssign(o, o2)

(***************************************************************************)
(* Dataset: the five slots (pointers, 0 is nil) and BodyPath.              *)
(***************************************************************************)
ZeroDataset == [slots |-> [k \in Kinds |-> 0], BodyPath |-> ""]

DatasetIsEmpty(d) ==
    /\ \A k \in Kinds : d.slots[k] = 0
    /\ d.BodyPath = ""

\* cp.Assign(ds) on a zero cp: every non-nil slot of ds is merged into a newly
\* allocated sub-document of cp through the sub-document's own Assign.
\* Result: [heap, cp]
DatasetAssign(h, d) ==
    [heap |-> [i \in ObjIds |->
                 IF \E k \in Kinds : i = CopyObj(k) /\ d.slots[k] # 0
                 THEN LET k == CHOOSE kk \in Kinds : i = CopyObj(kk)
                      IN Assign(k, ZeroObj, h[d.slots[k]])
                 ELSE h[i]],
     cp |-> [slots |-> [k \in Kinds |-> IF d.slots[k] # 0 THEN CopyObj(k) ELSE 0],
             BodyPath |-> Overwrite("", d.BodyPath)]]

\* json.Marshal(ds): keys in lexicographic order, nil slots omitted
DatasetMarshalJSON(d, h) ==
    LET slot(k) == IF d.slots[k] = 0 THEN "" ELSE MarshalJSON(k, h[d.slots[k]]).data
    IN Object(<<StringMember("bodyPath", d.BodyPath),
                Member("commit", slot("commit")),
                Member("meta", slot("meta")),
                StringMember("qri", "ds:0"),
                Member("structure", slot("structure")),
                Member("transform", slot("transform")),
                Member("viz", slot("viz"))>>)

(***************************************************************************)
(* The content store: the address of an object is derived from its bytes   *)
(* (an injective function of the content stands for the hash).             *)
(***************************************************************************)
Addr(data) == "/map/[" \o data \o "]"

File(name, data) == [name |-> name, data |-> data]

\* the completion event the store emits for the i-th file of the batch
AddedFile(files, i) == [Name |-> files[i].name, Path |-> Addr(files[i].data)]

(***************************************************************************)
(* WriteDataset, the part that runs before the event consumer starts.      *)
(* The files are added in program order; st is                             *)
(* [err, files, fileTasks], d the working dataset, h the heap.             *)
(***************************************************************************)
AddFile(st, f) == [st EXCEPT !.files = Append(@, f)]

CountTask(st) == [st EXCEPT !.fileTasks = @ + 1]

\* JSONFile(name, v) followed by fileTasks++ and adder.AddFile
AddJSONFile(st, name, k, o) ==
    LET m == MarshalJSON(k, o) IN
    IF m.err # "" THEN [st EXCEPT !.err = m.err]
    ELSE AddFile(CountTask(st), File(name, m.data))

\* each statement below is skipped once an earlier one has returned an error
AddMeta(st, d, h) ==
    IF st.err # "" \/ d.slots["meta"] = 0 THEN st
    ELSE AddJSONFile(st, PackageFileMeta, "meta", h[d.slots["meta"]])

AddBody(st, dataFile) ==
    IF st.err # "" THEN st ELSE AddFile(CountTask(st), dataFile)

\* faulty variant: the task of transform.json is not counted ahead of time
AddTransformWithScriptOneTask(st, q) ==
    AddFile(CountTask(st), File(transformScriptFilename, q.script))

\* a transform with a script: the script is added and two tasks are counted,
\* one for the script and one ahead of time for transform.json
AddTransformWithScript(st, q) ==
    CountTask(AddFile(CountTask(st), File(transformScriptFilename, q.script)))

\* all resources must be references; then the script or the document
AddTransformFiles(st, q) ==
    IF \E i \in 1..Len(q.resources) : q.resources[i] = ""
    THEN [st EXCEPT !.err = "transform resource requires a path to save"]
    ELSE IF q.script # "" THEN AddTransformWithScript(st, q)
    ELSE AddJSONFile(st, PackageFileTransform, "transform", q)

AddTransform(st, d, h) ==
    IF st.err # "" \/ d.slots["transform"] = 0 THEN st
    ELSE AddTransformFiles(st, h[d.slots["transform"]])

AddCommit(st, d, h) ==
    IF st.err # "" \/ d.slots["commit"] = 0 THEN st
    ELSE AddJSONFile(st, PackageFileCommit, "commit", h[d.slots["commit"]])

\* faulty variant: a task is counted for structure.json that no event ends
AddStructureCountedTwice(st, d, h) ==
    IF st.err # "" \/ d.slots["structure"] = 0 THEN st
    ELSE CountTask(AddJSONFile(st, PackageFileStructure, "structure", h[d.slots["structure"]]))

AddStructure(st, d, h) ==
    IF st.err # "" \/ d.slots["structure"] = 0 THEN st
    ELSE AddJSONFile(st, PackageFileStructure, "structure", h[d.slots["structure"]])

\* faulty variant: the task of viz.json is not counted ahead of time
AddVizFilesOneTask(st, v) ==
    IF v.script # ""
    THEN AddFile(CountTask(st), File(vizScriptFilename, v.script))
    ELSE AddJSONFile(st, PackageFileViz, "viz", v)

AddVizFiles(st, v) ==
    IF v.script # ""
    THEN CountTask(AddFile(CountTask(st), File(vizScriptFilename, v.script)))
    ELSE AddJSONFile(st, PackageFileViz, "viz", v)

AddViz(st, d, h) ==
    IF st.err # "" \/ d.slots["viz"] = 0 THEN st
    ELSE AddVizFiles(st, h[d.slots["viz"]])

NoFiles == [err |-> "", files |-> <<>>, fileTasks |-> 0]

\* the statements of lines 487-561 in program order
InitialAdds(d, h, dataFile) ==
    AddViz(AddStructure(AddCommit(AddTransform(AddBody(AddMeta(NoFiles, d, h), dataFile),
                                               d, h), d, h), d, h), d, h)

\* faulty variant: no copy is made, ds stays the caller's dataset
WorkingCopyInPlace(h, dh) == [heap |-> h, dsHeap |-> dh, ptr |-> "caller"]

\* cp := &Dataset{}; cp.Assign(ds); ds = cp.  Result: [heap, dsHeap, ptr]
WorkingCopy(h, dh) ==
    LET a == DatasetAssign(h, dh["caller"]) IN
    [heap |-> a.heap, dsHeap |-> [dh EXCEPT !["cp"] = a.cp], ptr |-> "cp"]

\* faulty variant: the emptiness check is missing
RejectNothing(d) == FALSE

\* if ds.IsEmpty() { return ... "cannot save empty dataset" }
RejectEmpty(d) == DatasetIsEmpty(d)

NoAdder == [called |-> FALSE, files |-> <<>>, delivered |-> {}, closed |-> FALSE]

\* Everything up to the start of the consumer goroutine.  newAdderFails is the
\* store's answer to NewAdder.
\* Result: [heap, dsHeap, ptr, adder, fileTasks, err]
WriteDatasetPrologue(h, dh, dataFile, newAdderFails) ==
    LET w == WorkingCopy(h, dh)
        d == w.dsHeap[w.ptr]
        base == [heap |-> w.heap, dsHeap |-> w.dsHeap, ptr |-> w.ptr,
                 adder |-> NoAdder, fileTasks |-> 0, err |-> ""]
    IN IF RejectEmpty(d) THEN [base EXCEPT !.err = "cannot save empty dataset"]
       ELSE IF newAdderFails
       THEN [base EXCEPT !.adder.called = TRUE, !.err = "error creating new adder"]
       ELSE LET st == InitialAdds(d, w.heap, dataFile) IN
            [base EXCEPT !.adder.called = TRUE, !.adder.files = st.files,
                         !.fileTasks = st.fileTasks, !.err = st.err]

(***************************************************************************)
(* The event consumer: the body of `for ao := range adder.Added()`.        *)
(* w is [heap, dsHeap, ptr, adder, fileTasks, path, err]; a non-empty err  *)
(* is the value sent on done.                                              *)
(***************************************************************************)
\* faulty variant: the address is set on the sub-document the slot points to
SetSlotRefInPlace(w, k, p) ==
    [w EXCEPT !.heap[w.dsHeap[w.ptr].slots[k]].path = p]

\* ds.<Kind> = dataset.New<Kind>Ref(ao.Path)
SetSlotRef(w, k, p) ==
    [w EXCEPT !.heap[RefObj(k)] = NewRef(k, p),
              !.dsHeap[w.ptr].slots[k] = RefObj(k)]

\* faulty variant: the document is encoded before ScriptPath is set
OnScriptAddedEncodeFirst(w, k, name, p) ==
    LET id == w.dsHeap[w.ptr].slots[k] IN
    IF id = 0 THEN [w EXCEPT !.err = "nil pointer dereference"]
    ELSE [w EXCEPT !.heap[id].scriptPath = p,
                   !.adder.files = Append(@, File(name, MarshalJSON(k, w.heap[id]).data))]

\* case transformScriptFilename / case vizScriptFilename: set ScriptPath on the
\* working sub-document, encode it and add the document file
OnScriptAdded(w, k, name, p) ==
    LET id == w.dsHeap[w.ptr].slots[k] IN
    IF id = 0 THEN [w EXCEPT !.err = "nil pointer dereference"]
    ELSE LET h2 == [w.heap EXCEPT ![id].scriptPath = p]
             m == MarshalJSON(k, h2[id])
         IN IF m.err # "" THEN [w EXCEPT !.heap = h2, !.err = m.err]
            ELSE [w EXCEPT !.heap = h2, !.adder.files = Append(@, File(name, m.data))]

\* faulty variant: path is assigned in the sub-document cases only
NextPathOfParts(old, ao) == IF ao.Name = PackageFileDataset THEN old ELSE ao.Path

\* path = ao.Path
NextPath(old, ao) == ao.Path

\* the switch on ao.Name: the first matching case runs
OnName(w, ao, dataFileName) ==
    IF ao.Name = PackageFileStructure THEN SetSlotRef(w, "structure", ao.Path)
    ELSE IF ao.Name = PackageFileTransform THEN SetSlotRef(w, "transform", ao.Path)
    ELSE IF ao.Name = PackageFileMeta THEN SetSlotRef(w, "meta", ao.Path)
    ELSE IF ao.Name = PackageFileCommit THEN SetSlotRef(w, "commit", ao.Path)
    ELSE IF ao.Name = PackageFileViz THEN SetSlotRef(w, "viz", ao.Path)
    ELSE IF ao.Name = dataFileName THEN [w EXCEPT !.dsHeap[w.ptr].BodyPath = ao.Path]
    ELSE IF ao.Name = transformScriptFilename
    THEN OnScriptAdded(w, "transform", PackageFileTransform, ao.Path)
    ELSE IF ao.Name = vizScriptFilename
    THEN OnScriptAdded(w, "viz", PackageFileViz, ao.Path)
    ELSE w

\* faulty variant: the top-level document is added whenever no task is pending
OnTaskDoneAtOrBelowZero(w, added, closeFails) ==
    LET n == w.fileTasks - 1 IN
    IF n > 0 THEN [w EXCEPT !.fileTasks = n]
    ELSE [w EXCEPT !.fileTasks = n,
                   !.adder.files = Append(@, File(PackageFileDataset,
                                       DatasetMarshalJSON(w.dsHeap[w.ptr], w.heap))),
                   !.adder.closed = TRUE,
                   !.err = IF closeFails THEN "error closing adder" ELSE ""]

\* fileTasks--; at zero the top-level document is encoded and added and the
\* batch is closed.  closeFails is the store's answer to Close.
OnTaskDone(w, added, closeFails) ==
    LET n == w.fileTasks - 1 IN
    IF n # 0 THEN [w EXCEPT !.fileTasks = n]
    ELSE LET files == IF added THEN w.adder.files
                      ELSE Append(w.adder.files,
                                  File(PackageFileDataset,
                                       DatasetMarshalJSON(w.dsHeap[w.ptr], w.heap)))
         IN [w EXCEPT !.fileTasks = n, !.adder.files = files, !.adder.closed = TRUE,
                      !.err = IF closeFails THEN "error closing adder" ELSE ""]

OnAdded(w, ao, dataFileName, added, closeFails) ==
    LET w1 == OnName([w EXCEPT !.path = NextPath(w.path, ao)], ao, dataFileName) IN
    IF w1.err # "" THEN w1 ELSE OnTaskDone(w1, added, closeFails)

(***************************************************************************)
(* The datasets WriteDataset is called with.                               *)
(***************************************************************************)
Absent == [present |-> FALSE, obj |-> ZeroObj]
Present(o) == [present |-> TRUE, obj |-> o]

MetaInputs ==
    {Absent,
     Present([ZeroObj EXCEPT !.fields = "title"])}

\* a reference; a value with no address; a value that also carries an address;
\* a value whose format is the unknown format
StructureInputs ==
    {Absent,
     Present(NewStructureRef("/map/s0")),
     Present([ZeroObj EXCEPT !.fields = "ck", !.format = "csv"]),
     Present([ZeroObj EXCEPT !.fields = "ck", !.format = "csv", !.path = "/map/s0"]),
     Present([ZeroObj EXCEPT !.fields = "ck"])}

\* no resources; bound resources; a resource with no path
ResourceInputs == {<<>>, <<"/map/r1">>, <<"/map/r1", "">>}

TransformInputs ==
    {Absent,
     Present(NewTransformRef("/map/t0")),
     Present([ZeroObj EXCEPT !.path = "/map/t0", !.script = "select"]),
     Present([ZeroObj EXCEPT !.fields = "sql"])}
    \cup {Present([ZeroObj EXCEPT !.fields = "sql", !.script = "select", !.resources = rs]) :
            rs \in ResourceInputs}

CommitInputs == {Absent, Present([ZeroObj EXCEPT !.fields = "initial commit"])}

VizInputs ==
    {Absent,
     Present([ZeroObj EXCEPT !.fields = "html"]),
     Present([ZeroObj EXCEPT !.fields = "html", !.script = "template"])}

BodyPathInputs == {"", "/map/b0"}

DataFile == File("data.csv", "a,b")

WriteInput(m, st, tf, cm, vz, bp) ==
    LET c == [meta |-> m, structure |-> st, transform |-> tf, commit |-> cm, viz |-> vz] IN
    [ds |-> [slots |-> [k \in Kinds |-> IF c[k].present THEN CallerObj(k) ELSE 0],
             BodyPath |-> bp],
     objs |-> [k \in Kinds |-> c[k].obj],
     dataFile |-> DataFile]

WriteInputs ==
    {WriteInput(m, st, tf, cm, vz, bp) :
        m \in MetaInputs, st \in StructureInputs, tf \in TransformInputs,
        cm \in CommitInputs, vz \in VizInputs, bp \in BodyPathInputs}

KindOfObj(i) == CHOOSE k \in Kinds : KindIdx(k) = ((i - 1) % 5) + 1

WInit ==
    /\ input \in WriteInputs
    /\ heap = [i \in ObjIds |-> IF i <= 5 THEN input.objs[KindOfObj(i)] ELSE ZeroObj]
    /\ dsHeap = [caller |-> input.ds, cp |-> ZeroDataset]
    /\ dsPtr = "caller"
    /\ adder = NoAdder
    /\ fileTasks = 0
    /\ addedDataset = FALSE
    /\ path = ""
    /\ werr = ""
    /\ wpc = "call"

\* lines 469-564: the copy, the emptiness check, NewAdder and the first additions
WriteDatasetCall ==
    /\ wpc = "call"
    /\ \E newAdderFails \in BOOLEAN :
         LET r == WriteDatasetPrologue(heap, dsHeap, input.dataFile, newAdderFails) IN
         /\ heap' = r.heap
         /\ dsHeap' = r.dsHeap
         /\ dsPtr' = r.ptr
         /\ adder' = r.adder
         /\ fileTasks' = r.fileTasks
         /\ werr' = r.err
         /\ wpc' = IF r.err # "" THEN "returned" ELSE "consume"
    /\ UNCHANGED <<input, addedDataset, path>>

\* lines 566-618: one completion event, in any order the store delivers them
ConsumeAdded ==
    /\ wpc = "consume"
    /\ \E i \in (1..Len(adder.files)) \ adder.delivered,
          closeFails \in (IF fileTasks = 1 THEN BOOLEAN ELSE {FALSE}) :
         LET w0 == [heap |-> heap, dsHeap |-> dsHeap, ptr |-> dsPtr,
                    adder |-> [adder EXCEPT !.delivered = @ \cup {i}],
                    fileTasks |-> fileTasks, path |-> path, err |-> ""]
             w == OnAdded(w0, AddedFile(adder.files, i), input.dataFile.name,
                          addedDataset, closeFails)
         IN /\ heap' = w.heap
            /\ dsHeap' = w.dsHeap
            /\ adder' = w.adder
            /\ fileTasks' = w.fileTasks
            /\ path' = w.path
            /\ werr' = w.err
            /\ wpc' = IF w.err # "" THEN "returned" ELSE "consume"
    /\ UNCHANGED <<input, dsPtr, addedDataset>>

\* lines 619-624: the event stream ends once the batch is closed and its
\* additions are flushed; done <- nil and WriteDataset returns path
AddedClosed ==
    /\ wpc = "consume"
    /\ adder.closed
    /\ adder.delivered = 1..Len(adder.files)
    /\ wpc' = "returned"
    /\ UNCHANGED <<input, heap, dsHeap, dsPtr, adder, fileTasks, addedDataset, path, werr>>

(***************************************************************************)
(* prepareDataset: entries, depth, checksum.                               *)
(* A body is a sequence of bytes; each byte is one entry of the body, read *)
(* by the entry reader as the value EntryValue gives.                      *)
(***************************************************************************)
Scalar == [t |-> "scalar", els |-> <<>>]
Array(els) == [t |-> "array", els |-> els]
Map(els) == [t |-> "object", els |-> els]

\* byte 0: a row of scalars; byte 1: a row holding two sibling objects
EntryValue(b) ==
    IF b = 0 THEN Array(<<Scalar, Scalar>>)
    ELSE Array(<<Map(<<Scalar>>), Map(<<Scalar>>)>>)

RECURSIVE getDepth(_, _), rangeDepth(_, _)
\* the loop `for _, el := range v`: depth is carried from element to element
rangeDepth(els, depth) ==
    IF els = <<>> THEN depth
    ELSE LET d == getDepth(Head(els), depth) IN
         rangeDepth(Tail(els), IF d > depth THEN d ELSE depth)

getDepth(x, depth) ==
    IF x.t \in {"object", "array"} THEN rangeDepth(x.els, depth + 1) ELSE depth

RECURSIVE entriesDepth(_, _)
\* the loop of setDepthAndEntryCount over the entries read
entriesDepth(bytes, depth) ==
    IF bytes = <<>> THEN depth
    ELSE LET d == getDepth(EntryValue(Head(bytes)), 1) IN
         entriesDepth(Tail(bytes), IF d > depth THEN d ELSE depth)

RECURSIVE B58String(_)
\* multihash.Sum(buf, SHA2_256).B58String(): injective in the bytes
B58String(bytes) ==
    IF bytes = <<>> THEN "Qm" ELSE B58String(SubSeq(bytes, 1, Len(bytes) - 1))
                                   \o ToString(bytes[Len(bytes)])

Analyzers == {"err", "entry", "hash"}

\* io.MultiWriter(errW, entryW, hashW) writes to the pipes in this order
PipeOf(a) == CASE a = "err" -> 1 [] a = "entry" -> 2 [] a = "hash" -> 3

\* faulty variant: the join waits for one signal too few
tasksTwo == 3 - 1

\* tasks := 3
tasks == 3

Bodies == UNION {[1..n -> {0, 1}] : n \in 0..MaxBody}

PrepareInputs ==
    {[df |-> df, PreviousPath |-> pp, dfBody |-> b, prevBody |-> <<1>>] :
        df \in BOOLEAN, pp \in {"", "/map/prev"}, b \in Bodies}

ZeroStructure == [ErrCount |-> 0, Entries |-> 0, Depth |-> 0, Checksum |-> "", Length |-> 0]

IdleAnalyzer == [pc |-> "idle", got |-> <<>>, err |-> ""]

PInit ==
    /\ pinput \in {i \in PrepareInputs : i.df \/ i.dfBody = <<>>}
    /\ body = <<>>
    /\ prod = [pc |-> "idle", pos |-> 0, pipe |-> 0, byte |-> 0]
    /\ an = [a \in Analyzers |-> IdleAnalyzer]
    /\ mu = ""
    /\ structure = ZeroStructure
    /\ buf = <<>>
    /\ caller = [pc |-> "call", signals |-> <<>>, err |-> "", file |-> <<>>,
                 hasFile |-> FALSE, synthesized |-> FALSE, signed |-> FALSE]
    /\ reads = 0

\* faulty variant: a missing body is not noticed
MissingBodyIgnored(in) == FALSE

\* line 220: neither a body file nor a previous version
MissingBody(in) == ~in.df /\ in.PreviousPath = ""

\* lines 220-258: the argument checks, the loading of the previous body, the
\* three pipes, the done channel and the four goroutines
PrepareCall ==
    /\ caller.pc = "call"
    /\ \E loadFails \in BOOLEAN :
         IF MissingBody(pinput)
         THEN /\ caller' = [caller EXCEPT !.pc = "returned",
                                          !.err = "datafile or dataset PreviousPath needed"]
              /\ UNCHANGED <<body, prod, an>>
         ELSE IF ~pinput.df /\ loadFails
         THEN /\ caller' = [caller EXCEPT !.pc = "returned",
                                          !.err = "error loading previous dataset"]
              /\ UNCHANGED <<body, prod, an>>
         ELSE /\ body' = IF pinput.df THEN pinput.dfBody ELSE pinput.prevBody
              /\ prod' = [prod EXCEPT !.pc = "read"]
              /\ an' = [a \in Analyzers |-> [IdleAnalyzer EXCEPT !.pc = "start"]]
              /\ caller' = [caller EXCEPT !.pc = "wait"]
    /\ UNCHANGED <<pinput, mu, structure, buf, reads>>

\* io.Copy(mw, df): one Read of df that returns data
ProducerRead ==
    /\ prod.pc = "read"
    /\ prod.pos < Len(body)
    /\ prod' = [prod EXCEPT !.pc = "write", !.pos = @ + 1, !.pipe = 1,
                            !.byte = body[prod.pos + 1]]
    /\ reads' = reads + 1
    /\ UNCHANGED <<pinput, body, an, mu, structure, buf, caller>>

\* df is at end of file: io.Copy returns and the deferred Close calls run
ProducerClose ==
    /\ prod.pc = "read"
    /\ prod.pos = Len(body)
    /\ prod' = [prod EXCEPT !.pc = "closed", !.pipe = 0]
    /\ UNCHANGED <<pinput, body, an, mu, structure, buf, caller, reads>>

\* faulty variant: the multiwriter is given the first two pipes only
AfterWriteTwoPipes(pr) ==
    IF pr.pipe < 2 THEN [pr EXCEPT !.pipe = @ + 1]
    ELSE [pr EXCEPT !.pc = "read", !.pipe = 0]

\* the multiwriter moves on to the next pipe once a Write returns; after the
\* last pipe mw.Write returns and io.Copy reads again
AfterWrite(pr) ==
    IF pr.pipe < 3 THEN [pr EXCEPT !.pipe = @ + 1]
    ELSE [pr EXCEPT !.pc = "read", !.pipe = 0]

\* dsio.NewEntryReader: the entry analyzers may fail before reading anything;
\* setChecksumAndStats starts io.Copy
AnalyzerStart(a) ==
    /\ an[a].pc = "start"
    /\ \E fails \in (IF a = "hash" THEN {FALSE} ELSE BOOLEAN) :
         an' = [an EXCEPT ![a].pc = IF fails THEN "send" ELSE "reading",
                          ![a].err = IF fails THEN "error reading data values" ELSE ""]
    /\ UNCHANGED <<pinput, body, prod, mu, structure, buf, caller, reads>>

\* faulty variant: the entry is counted before it is read
readErrorCountsFailed(a, entries) ==
    IF a = "entry" THEN "error reading values at entry " \o ToString(entries + 1)
    ELSE "validating data"

\* the error an analyzer sends when its reader fails after `entries` entries:
\* fmt.Errorf("error reading values at entry %d: %s", entries, ...) of the
\* shape analyzer, fmt.Errorf("validating data: %s", ...) of the validator
readError(a, entries) ==
    IF a = "entry" THEN "error reading values at entry " \o ToString(entries)
    ELSE "validating data"

\* a Write of the producer on the pipe of a meets a Read of a: the pipe is
\* synchronous, the Write returns when the bytes have been read.  The entry
\* reader or the validator may fail on what it read.
PipeTransfer(a) ==
    /\ prod.pc = "write"
    /\ prod.pipe = PipeOf(a)
    /\ an[a].pc = "reading"
    /\ \E fails \in (IF a = "hash" THEN {FALSE} ELSE BOOLEAN) :
         an' = [an EXCEPT ![a].got = Append(@, prod.byte),
                          ![a].pc = IF fails THEN "send" ELSE "reading",
                          ![a].err = IF fails THEN readError(a, Len(an[a].got)) ELSE ""]
    /\ buf' = IF a = "hash" THEN Append(buf, prod.byte) ELSE buf
    /\ prod' = AfterWrite(prod)
    /\ UNCHANGED <<pinput, body, mu, structure, caller, reads>>

\* faulty variant: the write ends are never closed
WriteEndNeverClosed(pr) == FALSE

\* defer errW.Close(), entryW.Close(), hashW.Close(): the write ends are closed
\* when the producer returns
WriteEndClosed(pr) == pr.pc = "closed"

\* a Read on a pipe whose write end is closed returns EOF: the analyzer has
\* the whole stream; the entry reader or the validator may still fail
AnalyzerEOF(a) ==
    /\ an[a].pc = "reading"
    /\ WriteEndClosed(prod)
    /\ \E fails \in (IF a = "hash" THEN {FALSE} ELSE BOOLEAN) :
         an' = [an EXCEPT ![a].pc = IF fails THEN "send" ELSE "lock",
                          ![a].err = IF fails THEN readError(a, Len(an[a].got)) ELSE ""]
    /\ UNCHANGED <<pinput, body, prod, mu, structure, buf, caller, reads>>

\* faulty variant: the lock is taken without waiting for its holder
AnalyzerLockNoWait(a) ==
    /\ an[a].pc = "lock"
    /\ mu' = a
    /\ an' = [an EXCEPT ![a].pc = "locked"]
    /\ UNCHANGED <<pinput, body, prod, structure, buf, caller, reads>>

\* mu.Lock()
AnalyzerLock(a) ==
    /\ an[a].pc = "lock"
    /\ mu = ""
    /\ mu' = a
    /\ an' = [an EXCEPT ![a].pc = "locked"]
    /\ UNCHANGED <<pinput, body, prod, structure, buf, caller, reads>>

\* ds.Structure.ErrCount = len(validationErrors)
setErrCount(st, validationErrors) == [st EXCEPT !.ErrCount = validationErrors]

\* faulty variant: the count starts at one
setDepthAndEntryCountFromOne(st, got) ==
    [st EXCEPT !.Entries = Len(got) + 1, !.Depth = entriesDepth(got, 1)]

\* ds.Structure.Entries = entries; ds.Structure.Depth = depth
setDepthAndEntryCount(st, got) ==
    [st EXCEPT !.Entries = Len(got), !.Depth = entriesDepth(got, 1)]

\* ds.Structure.Checksum = shasum.B58String(); ds.Structure.Length = len(buf.Bytes())
setChecksumAndStats(st, b) ==
    [st EXCEPT !.Checksum = B58String(b), !.Length = Len(b)]

\* the assignments made while the mutex is held
AnalyzerWrite(a) ==
    /\ an[a].pc = "locked"
    /\ \E validationErrors \in (IF a = "err" THEN 0..Len(an[a].got) ELSE {0}) :
         structure' = CASE a = "err" -> setErrCount(structure, validationErrors)
                        [] a = "entry" -> setDepthAndEntryCount(structure, an[a].got)
                        [] a = "hash" -> setChecksumAndStats(structure, buf)
    /\ an' = [an EXCEPT ![a].pc = "unlock"]
    /\ UNCHANGED <<pinput, body, prod, mu, buf, caller, reads>>

\* mu.Unlock()
AnalyzerUnlock(a) ==
    /\ an[a].pc = "unlock"
    /\ mu' = ""
    /\ an' = [an EXCEPT ![a].pc = "send"]
    /\ UNCHANGED <<pinput, body, prod, structure, buf, caller, reads>>

\* the loop `for i := 0; i < tasks; i++ { if err := <-done; err != nil { return } }`
\* after one more signal has been received
AfterSignal(signals) ==
    IF signals[Len(signals)].err # "" THEN "returned"
    ELSE IF Len(signals) >= tasks THEN "joined"
    ELSE "wait"

\* done is unbuffered: `done <- v` of an analyzer meets `<-done` of prepareDataset
SendDone(a) ==
    /\ an[a].pc = "send"
    /\ caller.pc = "wait"
    /\ LET sigs == Append(caller.signals, [from |-> a, err |-> an[a].err]) IN
       caller' = [caller EXCEPT !.signals = sigs,
                                !.pc = AfterSignal(sigs),
                                !.err = an[a].err]
    /\ an' = [an EXCEPT ![a].pc = "exit"]
    /\ UNCHANGED <<pinput, body, prod, mu, structure, buf, reads>>

\* lines 266-287: the commit message from the diff, the timestamp, the
\* signature and the returned body file
CommitAndSign ==
    /\ caller.pc = "joined"
    /\ \E outcome \in {"differr", "nochanges", "signerr", "ok"} :
         caller' =
           CASE outcome = "differr" ->
                  [caller EXCEPT !.pc = "returned", !.err = "error diffing datasets"]
             [] outcome = "nochanges" ->
                  [caller EXCEPT !.pc = "returned", !.err = "error saving: no changes detected"]
             [] outcome = "signerr" ->
                  [caller EXCEPT !.pc = "returned", !.synthesized = TRUE,
                                 !.err = "error signing commit title"]
             [] outcome = "ok" ->
                  [caller EXCEPT !.pc = "returned", !.synthesized = TRUE, !.signed = TRUE,
                                 !.file = buf, !.hasFile = TRUE]
    /\ UNCHANGED <<pinput, body, prod, an, mu, structure, buf, reads>>

(***************************************************************************)
(* Properties of WriteDataset.                                             *)
(***************************************************************************)
FileIdx == 1..Len(adder.files)

NamedIdx(name) == {i \in FileIdx : adder.files[i].name = name}

InputHas(k) == input.ds.slots[k] # 0

InputScript(k) == IF InputHas(k) THEN input.objs[k].script ELSE ""

DocName(k) ==
    CASE k = "meta" -> PackageFileMeta
      [] k = "structure" -> PackageFileStructure
      [] k = "transform" -> PackageFileTransform
      [] k = "commit" -> PackageFileCommit
      [] k = "viz" -> PackageFileViz

ScriptName(k) == IF k = "transform" THEN transformScriptFilename ELSE vizScriptFilename

\* the files a write of the input consists of, the top-level document aside
ExpectedNames ==
    {input.dataFile.name}
    \cup {DocName(k) : k \in {kk \in Kinds : InputHas(kk)}}
    \cup {ScriptName(k) : k \in {kk \in {"transform", "viz"} : InputScript(kk) # ""}}

IsBareReference(k, o) ==
    /\ o.path # ""
    /\ IsEmpty(k, o)
    /\ MarshalJSON(k, o).data = Quote(o.path)

\* C1: dataset.json is added only after the completion event of every other
\* file of the write (body, meta, structure, commit, transform, viz, scripts)
\* has been processed, and what is encoded is the working copy with BodyPath
\* set and every non-nil slot a bare address reference.
C1_TopLevelAddedLast ==
    \A j \in NamedIdx(PackageFileDataset) :
        /\ \A i \in FileIdx \ {j} : i < j /\ i \in adder.delivered
        /\ ExpectedNames \subseteq {adder.files[i].name : i \in 1..(j - 1)}
        /\ dsHeap[dsPtr].BodyPath = Addr(input.dataFile.data)
        /\ \A k \in Kinds :
              /\ InputHas(k) => dsHeap[dsPtr].slots[k] # 0
              /\ dsHeap[dsPtr].slots[k] # 0 =>
                     IsBareReference(k, heap[dsHeap[dsPtr].slots[k]])
        /\ adder.files[j].data = DatasetMarshalJSON(dsHeap[dsPtr], heap)

\* C1 witness: the top-level document of a dataset with all five
\* sub-documents and both scripts has been added
C1_Witness ==
    /\ NamedIdx(PackageFileDataset) # {}
    /\ \A k \in Kinds : InputHas(k)
    /\ InputScript("transform") # "" /\ InputScript("viz") # ""

\* what the document of kind k must encode to once its script is stored at p
ExpectedScriptedDoc(k, p) ==
    MarshalJSON(k, [Assign(k, ZeroObj, input.objs[k]) EXCEPT !.scriptPath = p]).data

\* C2: with a script, the script file is added first and the transform (viz)
\* document only after the script's completion event, carrying as ScriptPath
\* the address reported for the script; without a script the document is
\* among the files added before any event is consumed.
C2_ScriptThenDocument ==
    \A k \in {"transform", "viz"} :
        IF InputScript(k) # ""
        THEN \A i \in NamedIdx(DocName(k)) :
                \E s \in NamedIdx(ScriptName(k)) :
                    /\ s < i
                    /\ s \in adder.delivered
                    /\ adder.files[s].data = input.objs[k].script
                    /\ heap[CopyObj(k)].scriptPath = Addr(adder.files[s].data)
                    /\ adder.files[i].data = ExpectedScriptedDoc(k, Addr(adder.files[s].data))
                    /\ adder.files[i].data # Quote(input.objs[k].path)
        ELSE /\ NamedIdx(ScriptName(k)) = {}
             /\ (InputHas(k) /\ wpc = "consume" /\ adder.delivered = {})
                    => NamedIdx(DocName(k)) # {}

\* C2 witness: the transform document of a scripted transform has been added
\* while the viz of the same dataset has no script
C2_Witness ==
    /\ InputScript("transform") # ""
    /\ NamedIdx(PackageFileTransform) # {}
    /\ InputHas("viz") /\ InputScript("viz") = ""

\* C3: a successful WriteDataset returns the address the store reported for
\* dataset.json, which is the address of no other file of the write.
C3_ReturnsTopLevelAddress ==
    (wpc = "returned" /\ werr = "") =>
        \E j \in NamedIdx(PackageFileDataset) :
            /\ path = Addr(adder.files[j].data)
            /\ \A i \in FileIdx \ {j} : path # Addr(adder.files[i].data)

\* C3 witness: a successful return of a write of at least five files
C3_Witness ==
    /\ wpc = "returned"
    /\ werr = ""
    /\ Len(adder.files) >= 5

InputHasUnboundResource ==
    /\ InputHas("transform")
    /\ \E i \in 1..Len(input.objs["transform"].resources) :
          input.objs["transform"].resources[i] = ""

\* C4: with a resource of the transform that has an empty path, the write
\* fails and never contacts the store: no batch is created, no file is added.
C4_UnboundResourceNeverContactsStore ==
    InputHasUnboundResource =>
        /\ ~adder.called
        /\ adder.files = <<>>
        /\ wpc # "call" => (wpc = "returned" /\ werr # "")

\* C5: a dataset that is empty after the merge is rejected before any store
\* interaction: NewAdder is not called and no file is added.
C5_EmptyRejectedBeforeStore ==
    DatasetIsEmpty(input.ds) =>
        /\ ~adder.called
        /\ adder.files = <<>>
        /\ wpc # "call" => (wpc = "returned" /\ werr = "cannot save empty dataset")

\* C5 witness: the write of an empty dataset has returned
C5_Witness ==
    /\ DatasetIsEmpty(input.ds)
    /\ wpc = "returned"

SignalIdx == 1..Len(caller.signals)

ErrorSignals == {i \in SignalIdx : caller.signals[i].err # ""}

PostJoinErrors ==
    {"error diffing datasets", "error saving: no changes detected",
     "error signing commit title"}

\* prepareDataset is past the loop that receives from done
PastJoin ==
    \/ caller.pc = "joined"
    \/ caller.synthesized
    \/ caller.signed
    \/ caller.hasFile
    \/ caller.err \in PostJoinErrors

\* C7: prepareDataset is past the join only with exactly three nil signals,
\* one from each analyzer; an error signal is the last one received, it is
\* returned at once and the commit is neither synthesized nor signed.
C7_JoinOnThreeSignalsOrFirstError ==
    /\ PastJoin =>
          /\ Len(caller.signals) = 3
          /\ ErrorSignals = {}
          /\ {caller.signals[i].from : i \in SignalIdx} = Analyzers
    /\ \A i \in ErrorSignals :
          /\ i = Len(caller.signals)
          /\ caller.pc = "returned"
          /\ caller.err = caller.signals[i].err
          /\ ~caller.synthesized /\ ~caller.signed /\ ~caller.hasFile

\* C7 witness: a nil signal was received, then an error, and prepareDataset
\* has returned while the third analyzer has not reported
C7_Witness ==
    /\ Len(caller.signals) = 2
    /\ caller.signals[1].err = ""
    /\ caller.signals[2].err # ""
    /\ caller.pc = "returned"

\* C8: once an analyzer's error has been received and prepareDataset has
\* aborted, no analyzer writes a field of the dataset's Structure any more.
C8_NoWriteAfterAbort ==
    [][(caller.pc = "returned" /\ ErrorSignals # {}) => structure' = structure]_vars

IsPrefix(s, t) == Len(s) <= Len(t) /\ s = SubSeq(t, 1, Len(s))

\* C10: every byte of the body is read once, each analyzer receives the
\* bytes in body order, and on success each analyzer has received the whole
\* body, Length and Checksum are those of the body and the returned file
\* holds the body.
C10_BodyFannedOutOnce ==
    /\ reads = prod.pos
    /\ reads <= Len(body)
    /\ \A a \in Analyzers : IsPrefix(an[a].got, body)
    /\ caller.hasFile =>
          /\ reads = Len(body)
          /\ \A a \in Analyzers : an[a].got = body
          /\ structure.Length = Len(body)
          /\ structure.Checksum = B58String(body)
          /\ caller.file = body

\* C10 witness: a successful prepareDataset on a body of two bytes
C10_Witness ==
    /\ caller.hasFile
    /\ Len(body) >= 2
    /\ body[1] # body[2]

\* the nesting level of a value: 0 for a scalar, one more than its deepest
\* element for an object or an array
RECURSIVE Nesting(_), MaxNesting(_)
MaxNesting(els) ==
    IF els = <<>> THEN 0
    ELSE LET n == Nesting(Head(els))
             m == MaxNesting(Tail(els))
         IN IF n > m THEN n ELSE m

Nesting(x) ==
    IF x.t \in {"object", "array"} THEN 1 + MaxNesting(x.els) ELSE 0

\* baseline 1 plus the deepest branch of any entry
BranchDepth(bytes) == 1 + MaxNesting([i \in 1..Len(bytes) |-> EntryValue(bytes[i])])

\* C11: on success Structure.Depth is the baseline 1 plus the maximum nesting
\* level over all branches of all entries; sibling containers do not add up,
\* and a body with no entries gives 1.
C11_DepthIsDeepestBranch ==
    caller.hasFile => structure.Depth = BranchDepth(body)

(***************************************************************************)
(* cleanTitleAndMessage.  A string is a sequence of one-character strings; *)
(* indices are those of Go (from 0), -1 is "not found".                    *)
(***************************************************************************)
\* len(st) > 70
maxTitleLength == 70
\* cutIndex := 66
defaultCutIndex == 66
\* st[:67]
spaceSearchEnd == 67

ellipsis == <<".", ".", ".">>
lineBreak == <<"\n">>

\* s[from:to]
Slice(s, from, to) == SubSeq(s, from + 1, to)

\* strings.Index(s, c)
Index(s, c) ==
    IF \E i \in 1..Len(s) : s[i] = c
    THEN (CHOOSE i \in 1..Len(s) : s[i] = c /\ \A j \in 1..(i - 1) : s[j] # c) - 1
    ELSE -1

\* strings.LastIndex(s, c)
LastIndex(s, c) ==
    IF \E i \in 1..Len(s) : s[i] = c
    THEN (CHOOSE i \in 1..Len(s) : s[i] = c /\ \A j \in (i + 1)..Len(s) : s[j] # c) - 1
    ELSE -1

\* faulty variant: the diff description replaces a supplied title
selectTitleDiffFirst(sTitle, sMsg, diffDescription) ==
    IF diffDescription # <<>> THEN [st |-> diffDescription, sm |-> sMsg]
    ELSE IF sTitle = <<>> THEN [st |-> sMsg, sm |-> <<>>]
    ELSE [st |-> sTitle, sm |-> sMsg]

\* lines 435-443: which text is the title
selectTitle(sTitle, sMsg, diffDescription) ==
    IF sTitle = <<>> /\ diffDescription # <<>> THEN [st |-> diffDescription, sm |-> sMsg]
    ELSE IF sTitle = <<>> THEN [st |-> sMsg, sm |-> <<>>]
    ELSE [st |-> sTitle, sm |-> sMsg]

\* faulty variant: the title is always cut at the default index
cutIndexDefault(st) == defaultCutIndex

\* lines 446-450: where a long title is cut
cutIndex(st) ==
    LET lastSpaceIndex == LastIndex(Slice(st, 0, spaceSearchEnd), " ")
    IN IF lastSpaceIndex > 0 THEN lastSpaceIndex + 1 ELSE defaultCutIndex

\* faulty variant: the character at the cut is dropped
adjustLengthDropsOne(t) ==
    IF Len(t.st) > maxTitleLength
    THEN LET c == cutIndex(t.st)
         IN [st |-> Slice(t.st, 0, c) \o ellipsis,
             sm |-> ellipsis \o Slice(t.st, c + 1, Len(t.st)) \o lineBreak \o t.sm]
    ELSE t

\* lines 444-453: adjust for length
adjustLength(t) ==
    IF Len(t.st) > maxTitleLength
    THEN LET c == cutIndex(t.st)
         IN [st |-> Slice(t.st, 0, c) \o ellipsis,
             sm |-> ellipsis \o Slice(t.st, c, Len(t.st)) \o lineBreak \o t.sm]
    ELSE t

\* lines 454-460: adjust for line breaks
adjustLineBreaks(t) ==
    LET newlineIndex == Index(t.st, "\n")
    IN IF newlineIndex > 0
       THEN [st |-> Slice(t.st, 0, newlineIndex),
             sm |-> Slice(t.st, newlineIndex + 1, Len(t.st)) \o lineBreak \o t.sm]
       ELSE t

cleanTitleAndMessage(sTitle, sMsg, diffDescription) ==
    adjustLineBreaks(adjustLength(selectTitle(sTitle, sMsg, diffDescription)))

\* the texts the function is applied to
Run(c, n) == [i \in 1..n |-> c]
RunLengths == {0, 1, 35, 66, 67, 100}
Separators == {<<>>, <<" ">>, lineBreak}

Titles ==
    {Run("x", a) \o s1 \o Run("x", b) \o s2 \o Run("x", c) :
        a \in RunLengths, b \in RunLengths, c \in RunLengths,
        s1 \in Separators, s2 \in Separators}

Messages == {<<>>, <<"m">>, <<"m", "\n", "m">>, Run("m", 35) \o <<" ">> \o Run("m", 40)}

DiffDescriptions == {<<>>, <<"d">>, <<"d", "\n", "d">>, Run("d", 71)}

CleanIdle ==
    [pc |-> "idle", sTitle |-> <<>>, sMsg |-> <<>>, diffDescription |-> <<>>,
     title |-> <<>>, message |-> <<>>]

CInit ==
    clean \in {[pc |-> "call", sTitle |-> t, sMsg |-> m, diffDescription |-> d,
                title |-> t, message |-> m] :
                  t \in Titles, m \in Messages, d \in DiffDescriptions}

\* the call: *sTitle and *sMsg are overwritten with the results
CleanCall ==
    /\ clean.pc = "call"
    /\ LET r == cleanTitleAndMessage(clean.sTitle, clean.sMsg, clean.diffDescription)
       IN clean' = [clean EXCEPT !.pc = "returned", !.title = r.st, !.message = r.sm]

(***************************************************************************)
(* Properties of cleanTitleAndMessage.                                     *)
(***************************************************************************)
Returned == clean.pc = "returned"

\* the text that plays the title, and the message that goes with it
EffectiveTitle ==
    IF clean.sTitle # <<>> THEN clean.sTitle
    ELSE IF clean.diffDescription # <<>> THEN clean.diffDescription
    ELSE clean.sMsg

EffectiveMessage ==
    IF clean.sTitle = <<>> /\ clean.diffDescription = <<>> THEN <<>> ELSE clean.sMsg

IsSuffix(s, t) == Len(s) <= Len(t) /\ s = SubSeq(t, Len(t) - Len(s) + 1, Len(t))

Without(s, chars) == SelectSeq(s, LAMBDA ch : ch \notin chars)

HasBreak(s) == \E i \in 1..Len(s) : s[i] = "\n"

\* what was put in front of the message
Overflow ==
    IF clean.message = EffectiveMessage THEN <<>>
    ELSE Slice(clean.message, 0, Len(clean.message) - Len(EffectiveMessage) - 1)

\* C12: after cleanTitleAndMessage the title has at most 70 characters and
\* no line break, whatever the title, the message and the diff description.
C12_TitleShortAndSingleLine ==
    Returned => Len(clean.title) <= maxTitleLength /\ ~HasBreak(clean.title)

\* C13: no text is lost: the original message is the tail of the resulting
\* message, and the title followed by what was moved in front of the message
\* reproduces the original title once the ellipsis markers are removed (the
\* line break a title was split at is the boundary between the two).
C13_NoTextLost ==
    Returned =>
      LET T == EffectiveTitle IN
      /\ IsSuffix(EffectiveMessage, clean.message)
      /\ Without(clean.title \o Overflow, {".", "\n"}) = Without(T, {"\n"})
      /\ ~HasBreak(T) => Without(clean.title \o Overflow, {"."}) = T
      /\ (Len(T) <= maxTitleLength /\ Index(T, "\n") > 0) =>
            clean.title \o lineBreak \o Overflow = T
      /\ (Len(T) <= maxTitleLength /\ Index(T, "\n") <= 0) =>
            clean.title = T /\ clean.message = EffectiveMessage

\* C13 witness: a title cut by length and split at a line break as well
C13_Witness ==
    /\ Returned
    /\ Len(EffectiveTitle) > maxTitleLength
    /\ Index(EffectiveTitle, "\n") > 0
    /\ Index(EffectiveTitle, "\n") < 60
    /\ clean.sMsg # <<>>
    /\ Len(clean.title) < Len(Overflow)

\* the spaces of a title among its first n characters
SpacesBefore(T, n) == {i \in 0..(n - 1) : i < Len(T) /\ T[i + 1] = " "}

Max(S) == CHOOSE i \in S : \A j \in S : j <= i

\* the result of cutting T at index k
CutAt(T, k) ==
    /\ IsPrefix(clean.title, Slice(T, 0, k) \o ellipsis)
    /\ ~HasBreak(Slice(T, 0, k)) => clean.title = Slice(T, 0, k) \o ellipsis
    /\ IsSuffix(ellipsis \o Slice(T, k, Len(T)) \o lineBreak \o EffectiveMessage,
                clean.message)

\* C14 as stated: a title of more than 70 characters is cut at the last
\* space before character 70, or at index 66 when it has no such space, and
\* what is past the cut goes, after an ellipsis marker, in front of the message.
C14_CutAtLastSpaceBefore70 ==
    (Returned /\ Len(EffectiveTitle) > maxTitleLength) =>
      LET T == EffectiveTitle
          sp == SpacesBefore(T, maxTitleLength - 1)
      IN IF sp = {} THEN CutAt(T, defaultCutIndex)
         ELSE CutAt(T, Max(sp)) \/ CutAt(T, Max(sp) + 1)

\* C14 amended: a title of more than 70 characters is cut right after the
\* last space among its characters at index 1 to 66, or at index 66 when
\* there is none; what is past the cut goes, after an ellipsis marker, in
\* front of the message.  100 'x' with an empty message give 66 'x' and the
\* marker as title and the marker, 34 'x' and a line break as message.
C14_CutAfterLastSpaceInFirst67 ==
    (Returned /\ Len(EffectiveTitle) > maxTitleLength) =>
      LET T == EffectiveTitle
          sp == SpacesBefore(T, spaceSearchEnd) \ {0}
      IN /\ IF sp = {} THEN CutAt(T, defaultCutIndex) ELSE CutAt(T, Max(sp) + 1)
         /\ (T = Run("x", 100) /\ EffectiveMessage = <<>>) =>
               /\ clean.title = Run("x", 66) \o ellipsis
               /\ clean.message = ellipsis \o Run("x", 34) \o lineBreak

\* C14 witness: a long title cut after a space, and the title of 100 'x'
C14_Witness ==
    /\ Returned
    /\ Len(EffectiveTitle) > maxTitleLength
    /\ ~HasBreak(EffectiveTitle)
    /\ SpacesBefore(EffectiveTitle, spaceSearchEnd) \ {0} # {}
    /\ Len(clean.title) = maxTitleLength

\* C15: with no title the diff description is the title and the message is
\* kept; a supplied title is never replaced by the diff description; with
\* neither title nor diff description the message moves up to the title and
\* nothing else is left in the message.
C15_TitleSelection ==
    Returned =>
      LET fits(t) == Len(t) <= maxTitleLength /\ Index(t, "\n") <= 0
          made(t) == IsPrefix(Without(clean.title, {"."}), t)
      IN /\ (clean.sTitle = <<>> /\ clean.diffDescription # <<>>) =>
               /\ made(clean.diffDescription)
               /\ clean.title # <<>>
               /\ IsSuffix(clean.sMsg, clean.message)
               /\ fits(clean.diffDescription) =>
                     clean.title = clean.diffDescription /\ clean.message = clean.sMsg
         /\ clean.sTitle # <<>> =>
               /\ made(clean.sTitle)
               /\ clean.title # <<>>
               /\ IsSuffix(clean.sMsg, clean.message)
               /\ fits(clean.sTitle) =>
                     clean.title = clean.sTitle /\ clean.message = clean.sMsg
         /\ (clean.sTitle = <<>> /\ clean.diffDescription = <<>>) =>
               /\ made(clean.sMsg)
               /\ Without(clean.title \o clean.message, {".", "\n"})
                    = Without(clean.sMsg, {"\n"})
               /\ fits(clean.sMsg) => clean.title = clean.sMsg /\ clean.message = <<>>

\* C15 witness: no title, a diff description and a message
C15_Witness ==
    /\ Returned
    /\ clean.sTitle = <<>>
    /\ clean.diffDescription = <<"d">>
    /\ clean.sMsg = <<"m">>
    /\ clean.title = <<"d">>

(***************************************************************************)
(* CreateDataset, with prepareDataset as the sequence of its stages (the   *)
(* analysis stage is one step here).  A call is                            *)
(*   pk       whether a private key is given                               *)
(*   df       whether a body file is given                                 *)
(*   PreviousPath  ds.PreviousPath                                         *)
(*   refs     the number of sub-documents of ds that are references        *)
(*   changed  whether the dataset differs from what it is diffed against   *)
(* and the state of the call records the steps run, in order, the reads    *)
(* and writes made on the store, and what happened to the commit.          *)
(***************************************************************************)
MaxRefs == 2

CreateInputs ==
    {[pk |-> k, df |-> f, PreviousPath |-> pp, refs |-> r, changed |-> ch] :
        k \in BOOLEAN, f \in BOOLEAN, pp \in {"", "/map/prev"}, r \in 0..MaxRefs,
        ch \in BOOLEAN}

CreateIdle ==
    [pc |-> "idle", in |-> [pk |-> FALSE, df |-> FALSE, PreviousPath |-> "", refs |-> 0,
                            changed |-> FALSE],
     err |-> "", steps |-> <<>>, storeReads |-> 0, storeWrites |-> 0,
     hasBody |-> FALSE, diffDescription |-> "", timestamped |-> FALSE, signed |-> FALSE,
     path |-> ""]

CrInit ==
    create \in {[CreateIdle EXCEPT !.pc = "call", !.in = i] : i \in CreateInputs}

\* a step that ends the call with an error
Fail(cr, step, text) ==
    [cr EXCEPT !.pc = "returned", !.err = text, !.steps = Append(cr.steps, step)]

\* a step that hands over to the next one
Pass(cr, step, next) ==
    [cr EXCEPT !.pc = next, !.steps = Append(cr.steps, step)]

\* lines 177-180
CheckKey ==
    /\ create.pc = "call"
    /\ create' = IF ~create.in.pk
                 THEN Fail(create, "key", "private key is required to create a dataset")
                 ELSE Pass(create, "key", "deref")

\* lines 181-184: DerefDataset loads every reference in turn and stops at
\* the first load that fails (failAt = 0: none fails)
DerefStep ==
    /\ create.pc = "deref"
    /\ \E failAt \in 0..create.in.refs :
         create' =
           IF failAt > 0
           THEN [Fail(create, "deref", "error loading dataset component")
                    EXCEPT !.storeReads = create.storeReads + failAt]
           ELSE [Pass(create, "deref", "validate")
                    EXCEPT !.storeReads = create.storeReads + create.in.refs]

\* lines 185-188
ValidateStep ==
    /\ create.pc = "validate"
    /\ \E invalid \in BOOLEAN :
         create' = IF invalid THEN Fail(create, "validate", "invalid dataset")
                   ELSE Pass(create, "validate", "args")

\* lines 220-235: the body is df or the body of the previous version
PrepareArgs ==
    /\ create.pc = "args"
    /\ \E loadFails \in BOOLEAN :
         create' =
           IF MissingBody(create.in)
           THEN Fail(create, "args", "datafile or dataset PreviousPath needed")
           ELSE IF create.in.df
           THEN [Pass(create, "args", "analyze") EXCEPT !.hasBody = TRUE]
           ELSE IF loadFails
           THEN [Fail(create, "args", "error loading previous dataset")
                    EXCEPT !.storeReads = create.storeReads + 1]
           ELSE [Pass(create, "args", "analyze")
                    EXCEPT !.hasBody = TRUE, !.storeReads = create.storeReads + 2]

\* lines 237-264: the three analyzers and the join
AnalyzeStep ==
    /\ create.pc = "analyze"
    /\ \E analyzerFails \in BOOLEAN :
         create' = IF analyzerFails THEN Fail(create, "analyze", "reading data values")
                   ELSE Pass(create, "analyze", "synthesize")

\* dsdiff.DiffDatasets and MapDiffsToString: empty when nothing differs
MapDiffsToString(in) == IF in.changed THEN "structure: 1 change" ELSE ""

\* faulty variant: an empty diff description is let through
SynthesizedAnyway(cr, diffFails) ==
    IF diffFails THEN Fail(cr, "synthesize", "error diffing datasets")
    ELSE [Pass(cr, "synthesize", "sign")
             EXCEPT !.diffDescription = MapDiffsToString(cr.in)]

\* lines 266-276: generateCommitMsg and the check of its result
Synthesized(cr, diffFails) ==
    IF diffFails THEN Fail(cr, "synthesize", "error diffing datasets")
    ELSE IF MapDiffsToString(cr.in) = ""
    THEN Fail(cr, "synthesize", "error saving: no changes detected")
    ELSE [Pass(cr, "synthesize", "sign")
             EXCEPT !.diffDescription = MapDiffsToString(cr.in)]

\* generateCommitMsg loads the previous version when there is one
SynthesizeStep ==
    /\ create.pc = "synthesize"
    /\ \E diffFails \in BOOLEAN :
         create' =
           [Synthesized(create, diffFails)
               EXCEPT !.storeReads =
                         create.storeReads + IF create.in.PreviousPath # "" THEN 1 ELSE 0]

\* faulty variant: the error of Sign is logged and the save goes on
SignedOrNot(cr, signFails) ==
    [Pass(cr, "sign", "write") EXCEPT !.timestamped = TRUE, !.signed = ~signFails]

\* lines 278-287: title and message, timestamp, signature
Signed(cr, signFails) ==
    IF signFails
    THEN [Fail(cr, "sign", "error signing commit title") EXCEPT !.timestamped = TRUE]
    ELSE [Pass(cr, "sign", "write") EXCEPT !.timestamped = TRUE, !.signed = TRUE]

SignStep ==
    /\ create.pc = "sign"
    /\ \E signFails \in BOOLEAN : create' = Signed(create, signFails)

\* lines 190-200: prepareDataset has returned without error
WriteStep ==
    /\ create.pc = "write"
    /\ \E writeFails \in BOOLEAN :
         create' =
           IF writeFails
           THEN [Fail(create, "write", "error writing dataset")
                    EXCEPT !.storeWrites = create.storeWrites + 1]
           ELSE [Pass(create, "write", "returned")
                    EXCEPT !.storeWrites = create.storeWrites + 1,
                           !.path = "/map/new"]

(***************************************************************************)
(* Properties of CreateDataset and of the stages of prepareDataset.        *)
(***************************************************************************)
StepsRun == {create.steps[i] : i \in 1..Len(create.steps)}

NoChanges == "error saving: no changes detected"

\* C16: an empty diff description makes the save fail with the 'no changes'
\* error; the commit is then neither timestamped nor signed, WriteDataset is
\* not run and nothing is written to the store.
C16_NoChangesAbortsSave ==
    /\ ("synthesize" \in StepsRun /\ MapDiffsToString(create.in) = ""
          /\ create.err # "error diffing datasets") => create.err = NoChanges
    /\ create.err = NoChanges =>
          /\ create.pc = "returned"
          /\ ~create.timestamped
          /\ ~create.signed
          /\ StepsRun \cap {"sign", "write"} = {}
          /\ create.storeWrites = 0
          /\ create.path = ""

\* C16 witness: a second version that changes nothing
C16_Witness ==
    /\ create.err = NoChanges
    /\ create.in.PreviousPath # ""
    /\ ~create.in.df
    /\ create.hasBody

\* C17: without a body file and without a previous version prepareDataset
\* returns the configuration error before any pipe, analyzer or producer is
\* started; with a previous version only, the body is the one loaded from it.
C17_MissingBodyIsConfigurationError ==
    /\ (~pinput.df /\ pinput.PreviousPath = "" /\ caller.pc # "call") =>
          /\ caller.pc = "returned"
          /\ caller.err = "datafile or dataset PreviousPath needed"
          /\ prod.pc = "idle"
          /\ \A a \in Analyzers : an[a] = IdleAnalyzer
          /\ reads = 0
          /\ structure = ZeroStructure
    /\ (~pinput.df /\ pinput.PreviousPath # "" /\ caller.pc # "call"
          /\ caller.err # "error loading previous dataset") =>
          body = pinput.prevBody
    /\ (~pinput.df /\ caller.hasFile) => caller.file = pinput.prevBody

\* C17 witness: a save from the previous version's body that succeeded
C17_Witness ==
    /\ ~pinput.df
    /\ pinput.PreviousPath # ""
    /\ caller.hasFile
    /\ caller.file = pinput.prevBody
    /\ structure.Length = Len(pinput.prevBody)

StepOrder == <<"key", "deref", "validate", "args", "analyze", "synthesize", "sign", "write">>

\* C18: the steps of CreateDataset run in the fixed order and the first
\* failure ends the call: no step runs after it.  Without a private key the
\* store is not accessed; after a signing failure WriteDataset is not run
\* and nothing is written; what is written is signed.
C18_StepsInOrderFirstFailureReturns ==
    /\ IsPrefix(create.steps, StepOrder)
    /\ create.err # "" => create.pc = "returned"
    /\ (~create.in.pk /\ create.pc # "call") =>
          /\ create.err = "private key is required to create a dataset"
          /\ create.steps = <<"key">>
          /\ create.storeReads = 0
          /\ create.storeWrites = 0
    /\ create.err = "error signing commit title" =>
          /\ "write" \notin StepsRun
          /\ create.storeWrites = 0
          /\ create.path = ""
    /\ "write" \in StepsRun =>
          /\ create.signed
          /\ create.steps = StepOrder
          /\ create.err \in {"", "error writing dataset"}

\* C18 witness: the signing failed after every earlier step succeeded
C18_Witness ==
    /\ create.err = "error signing commit title"
    /\ create.steps = SubSeq(StepOrder, 1, 7)
    /\ create.storeReads > 0

(***************************************************************************)
(* LoadDatasetRefs.  A fetch, fileBytes(store.Get(path)), gives            *)
(* [err, data]: an error, or the bytes read, which may be none.            *)
(***************************************************************************)
LoadPaths == {"/map/A", "/map/B", "/map/C", "/map/D"}

\* PackageKeypath: the address of dataset.json under a dataset's path
PackageKeypath(p) == p \o "/" \o PackageFileDataset

\* the top-level documents a store may hold, by text
StoredDocuments ==
    {"{\"bodyPath\":\"/map/b0\"}",
     "{\"bodyPath\":\"/map/b1\",\"previousPath\":\"/map/A\"}",
     "{\"bodyPath\":\"/map/b2\",\"structure\":\"/map/s0\"}"}

\* bytes that are no JSON document
CorruptDocuments == {"{\"bodyPath\":"}

FetchResults ==
    {[err |-> "not found", data |-> ""], [err |-> "", data |-> ""]}
    \cup {[err |-> "", data |-> d] : d \in StoredDocuments \cup CorruptDocuments}

\* dataset.UnmarshalDataset: the dataset a text decodes to, or an error
UnmarshalDataset(data) ==
    IF data \in StoredDocuments
    THEN [err |-> "", ds |-> [doc |-> data, path |-> ""]]
    ELSE [err |-> IF data = "" THEN "unexpected end of JSON input" ELSE "unexpected EOF",
          ds |-> [doc |-> "", path |-> ""]]

LoadIdle ==
    [pc |-> "idle", path |-> "", fetches |-> <<>>, data |-> "", err |-> "",
     ds |-> [doc |-> "", path |-> ""]]

LInit ==
    load \in {[LoadIdle EXCEPT !.pc = "call", !.path = PackageKeypath(p)] : p \in LoadPaths}

\* faulty variant: only an error leads to the second try
NeedsRetryOnErrorOnly(r) == r.err # ""

\* line 54: err != nil || len(data) == 0
NeedsRetry(r) == r.err # "" \/ Len(r.data) = 0

\* lines 46-47 and the test of line 54
FirstFetch ==
    /\ load.pc = "call"
    /\ \E r \in FetchResults :
         load' = [load EXCEPT !.fetches = Append(load.fetches, r),
                              !.data = r.data,
                              !.pc = IF NeedsRetry(r) THEN "retry" ELSE "decode"]

\* lines 55-59: the second try
Retry ==
    /\ load.pc = "retry"
    /\ \E r \in FetchResults :
         load' = IF r.err # ""
                 THEN [load EXCEPT !.fetches = Append(load.fetches, r),
                                   !.data = r.data,
                                   !.pc = "returned",
                                   !.err = "error getting file bytes: " \o r.err]
                 ELSE [load EXCEPT !.fetches = Append(load.fetches, r),
                                   !.data = r.data,
                                   !.pc = "decode"]

\* lines 62-72: decode, then keep the path the dataset was read from
Decode ==
    /\ load.pc = "decode"
    /\ LET u == UnmarshalDataset(load.data)
       IN load' = IF u.err # ""
                  THEN [load EXCEPT !.pc = "returned",
                                    !.err = "error unmarshaling dataset.json file: " \o u.err]
                  ELSE [load EXCEPT !.pc = "returned",
                                    !.ds = [u.ds EXCEPT !.path = load.path]]

(***************************************************************************)
(* Properties of LoadDatasetRefs.                                          *)
(***************************************************************************)
Fetched == Len(load.fetches)

StartsWith(s, pre) == Len(s) >= Len(pre) /\ SubSeq(s, 1, Len(pre)) = pre

IsStoreError == StartsWith(load.err, "error getting file bytes")

IsDecodeError == StartsWith(load.err, "error unmarshaling")

FailedOrEmpty(r) == r.err # "" \/ r.data = ""

\* C19: at most two fetches are issued; the second one exactly when the
\* first failed or returned no bytes; when the retry returns data, the
\* dataset is decoded from the bytes of the retry.
C19_RetriesOnceOnEmptyRead ==
    /\ Fetched <= 2
    /\ Fetched = 2 => FailedOrEmpty(load.fetches[1])
    /\ (load.pc \in {"decode", "returned"} /\ FailedOrEmpty(load.fetches[1])) => Fetched = 2
    /\ (Fetched = 2 /\ load.fetches[2].err = "") => load.data = load.fetches[2].data
    /\ (load.pc = "returned" /\ load.err = "") =>
          /\ load.ds.doc = load.fetches[Fetched].data
          /\ load.ds.doc \in StoredDocuments
          /\ load.ds.path = load.path

\* C19 witness: an empty first read, then a retry whose bytes are decoded
C19_Witness ==
    /\ load.pc = "returned"
    /\ load.err = ""
    /\ Fetched = 2
    /\ load.fetches[1] = [err |-> "", data |-> ""]
    /\ load.ds.doc = load.fetches[2].data

\* C20: the call fails with the store error when both fetches fail or return
\* no bytes, and with the decoding error only when bytes were obtained and
\* do not decode; a retry that returns no bytes is a store error and is not
\* given to the decoder.
C20_EmptyRetryIsStoreError ==
    load.pc = "returned" =>
      /\ (Fetched = 2 /\ FailedOrEmpty(load.fetches[2])) => IsStoreError
      /\ IsStoreError => (Fetched = 2 /\ FailedOrEmpty(load.fetches[2]))
      /\ IsDecodeError => load.data # ""

(***************************************************************************)
(* DerefDataset and the five per-kind dereference functions.               *)
(***************************************************************************)
\* the order of the calls in DerefDataset
DerefOrder == <<"meta", "structure", "transform", "viz", "commit">>

DerefReturned == Len(DerefOrder) + 1

\* a slot of the dataset: nil, or a pointer to a sub-document
Nil == [nil |-> TRUE, obj |-> ZeroObj]
Slot(o) == [nil |-> FALSE, obj |-> o]

\* the address the sub-document of kind k is stored at
RefPath(k) == "/map/Qm" \o k

\* what the store holds at RefPath(k), decoded
StoredSubdoc(k) == [ZeroObj EXCEPT !.fields = "stored " \o k]

StoreOutcomes == {"ok", "missing", "corrupt"}

\* loadStructure, loadMeta, loadTransform, loadViz, loadCommit: the file at
\* the path is fetched and its bytes are decoded
LoadSubdoc(k, outcome) ==
    CASE outcome = "missing" ->
           [err |-> "error loading " \o k \o " file: not found", obj |-> ZeroObj]
      [] outcome = "corrupt" ->
           [err |-> "error unmarshaling " \o k \o " file", obj |-> ZeroObj]
      [] OTHER -> [err |-> "", obj |-> StoredSubdoc(k)]

\* fmt.Errorf("error loading dataset <kind>: %s", err.Error())
DerefError(k, err) == "error loading dataset " \o k \o ": " \o err

ShapeNames == {"nil", "zero", "ref", "hydrated"}

SlotOf(k, shape) ==
    CASE shape = "nil" -> Nil
      [] shape = "zero" -> Slot(ZeroObj)
      [] shape = "ref" -> Slot(NewRef(k, RefPath(k)))
      [] OTHER -> Slot([ZeroObj EXCEPT !.fields = "own " \o k, !.path = RefPath(k)])

DerefInputs == {[k \in Kinds |-> SlotOf(k, sh[k])] : sh \in [Kinds -> ShapeNames]}

\* calls of DerefDataset made on the same dataset, one after the other
MaxDerefCalls == 2

\* in and slots are the dataset at the start of the call and now, reads the
\* store reads of the call; prev holds the dataset and the reads at the
\* return of the call before
DerefIdle ==
    [pc |-> 0, in |-> [k \in Kinds |-> Nil], slots |-> [k \in Kinds |-> Nil],
     reads |-> <<>>, err |-> "", calls |-> 0,
     prev |-> [slots |-> [k \in Kinds |-> Nil], reads |-> <<>>]]

DInit ==
    deref \in {[DerefIdle EXCEPT !.pc = 1, !.calls = 1, !.in = i, !.slots = i] :
                 i \in DerefInputs}

\* faulty variant: a hydrated sub-document that carries an address is loaded again
NeedsDerefWithPath(k, s) == ~s.nil /\ s.obj.path # ""

\* if ds.X != nil && ds.X.IsEmpty() && ds.X.Path().String() != ""
NeedsDeref(k, s) == ~s.nil /\ IsEmpty(k, s.obj) /\ s.obj.path # ""

\* faulty variant: the loaded value is dropped, the slot stays a reference
HydrateKeepsReference(k, s, st) == Slot(NewRef(k, s.obj.path))

\* st.Assign(dataset.NewXRef(ds.X.Path())); ds.X = st
Hydrate(k, s, st) == Slot(Assign(k, st, NewRef(k, s.obj.path)))

\* faulty variant: the error of a per-kind dereference is not looked at
AfterDerefIgnoringError(pc, err) == pc + 1

\* `if err := DerefDatasetX(store, ds); err != nil { return err }`
AfterDeref(pc, err) == IF err # "" THEN DerefReturned ELSE pc + 1

\* one per-kind dereference called by DerefDataset, with what the store answers
DerefKind(d, k, outcome) ==
    IF NeedsDeref(k, d.slots[k])
    THEN LET r == LoadSubdoc(k, outcome) IN
         IF r.err # ""
         THEN [d EXCEPT !.reads = Append(@, d.slots[k].obj.path),
                        !.err = DerefError(k, r.err),
                        !.pc = AfterDeref(@, DerefError(k, r.err))]
         ELSE [d EXCEPT !.reads = Append(@, d.slots[k].obj.path),
                        !.slots[k] = Hydrate(k, d.slots[k], r.obj),
                        !.pc = AfterDeref(@, "")]
    ELSE [d EXCEPT !.pc = AfterDeref(@, "")]

DerefDatasetMeta ==
    /\ deref.pc = 1
    /\ \E outcome \in StoreOutcomes : deref' = DerefKind(deref, "meta", outcome)
    /\ UNCHANGED <<codec, asg>>

DerefDatasetStructure ==
    /\ deref.pc = 2
    /\ \E outcome \in StoreOutcomes : deref' = DerefKind(deref, "structure", outcome)
    /\ UNCHANGED <<codec, asg>>

DerefDatasetTransform ==
    /\ deref.pc = 3
    /\ \E outcome \in StoreOutcomes : deref' = DerefKind(deref, "transform", outcome)
    /\ UNCHANGED <<codec, asg>>

DerefDatasetViz ==
    /\ deref.pc = 4
    /\ \E outcome \in StoreOutcomes : deref' = DerefKind(deref, "viz", outcome)
    /\ UNCHANGED <<codec, asg>>

DerefDatasetCommit ==
    /\ deref.pc = 5
    /\ \E outcome \in StoreOutcomes : deref' = DerefKind(deref, "commit", outcome)
    /\ UNCHANGED <<codec, asg>>

\* DerefDataset is called again on the dataset a successful call left
DerefDatasetAgain ==
    /\ deref.pc = DerefReturned
    /\ deref.err = ""
    /\ deref.calls < MaxDerefCalls
    /\ deref' = [deref EXCEPT !.pc = 1, !.calls = @ + 1, !.in = deref.slots,
                              !.reads = <<>>,
                              !.prev = [slots |-> deref.slots, reads |-> deref.reads]]
    /\ UNCHANGED <<codec, asg>>

(***************************************************************************)
(* Properties of the dereference.                                          *)
(***************************************************************************)
\* the slot is an empty sub-document bound to an address
BoundReference(k, s) == ~s.nil /\ IsEmpty(k, s.obj) /\ s.obj.path # ""

\* the slot holds what the store has at the address, bound to that address
HydratedFrom(k, s, ref) ==
    /\ ~s.nil
    /\ s.obj.fields = StoredSubdoc(k).fields
    /\ s.obj.path = ref.obj.path

DerefStepOf(i) ==
    LET k == DerefOrder[i]
        s == deref.slots[k]
        s2 == deref'.slots[k]
    IN  /\ \A j \in Kinds \ {k} : deref'.slots[j] = deref.slots[j]
        /\ IF BoundReference(k, s)
           THEN /\ deref'.reads = Append(deref.reads, s.obj.path)
                /\ IF deref'.err = "" THEN HydratedFrom(k, s2, s) ELSE s2 = s
           ELSE /\ deref'.reads = deref.reads
                /\ s2 = s
                /\ deref'.err = ""

\* C21: a per-kind dereference reads the store exactly when its slot is
\* non-nil, empty and bound to a non-empty path; on success the slot then
\* holds the decoded value with the path of the reference; in every other
\* case nothing is read and the slot is untouched; when the load fails the
\* slot stays the reference it was.
C21_DerefReadsExactlyBoundReferences ==
    [][\A i \in 1..Len(DerefOrder) : deref.pc = i => DerefStepOf(i)]_vars

C21_Witness ==
    /\ deref.pc = 3
    /\ deref.in["meta"] = SlotOf("meta", "hydrated")
    /\ deref.in["structure"] = SlotOf("structure", "ref")
    /\ HydratedFrom("structure", deref.slots["structure"], deref.in["structure"])
    /\ deref.reads = <<RefPath("structure")>>

RECURSIVE ExpectedReads(_)
\* the addresses of the bound references among the first n kinds, in order
ExpectedReads(n) ==
    IF n = 0 THEN <<>>
    ELSE IF BoundReference(DerefOrder[n], deref.in[DerefOrder[n]])
         THEN Append(ExpectedReads(n - 1), RefPath(DerefOrder[n]))
         ELSE ExpectedReads(n - 1)

DerefFailedAt(i) ==
    \E o \in {"missing", "corrupt"} :
        deref.err = DerefError(DerefOrder[i], LoadSubdoc(DerefOrder[i], o).err)

\* the kinds before position n are done: their references are hydrated, the
\* other slots are as they were; the kinds from n on are untouched
DoneBefore(n) ==
    /\ \A j \in 1..(n - 1) :
         IF BoundReference(DerefOrder[j], deref.in[DerefOrder[j]])
         THEN HydratedFrom(DerefOrder[j], deref.slots[DerefOrder[j]], deref.in[DerefOrder[j]])
         ELSE deref.slots[DerefOrder[j]] = deref.in[DerefOrder[j]]
    /\ \A j \in n..Len(DerefOrder) : deref.slots[DerefOrder[j]] = deref.in[DerefOrder[j]]

\* C22: DerefDataset works through Meta, Structure, Transform, Viz, Commit in
\* this order and stops at the first failure: the store is read for no later
\* kind, the later slots are still what they were, the earlier ones stay
\* hydrated and the error is what the call returns.
C22_DerefInOrderStopsAtFirstFailure ==
    /\ deref.pc \in 1..Len(DerefOrder) =>
         /\ deref.err = ""
         /\ deref.reads = ExpectedReads(deref.pc - 1)
         /\ DoneBefore(deref.pc)
    /\ (deref.pc = DerefReturned /\ deref.err = "") =>
         /\ deref.reads = ExpectedReads(Len(DerefOrder))
         /\ DoneBefore(DerefReturned)
    /\ deref.err # "" =>
         /\ deref.pc = DerefReturned
         /\ \E i \in 1..Len(DerefOrder) :
              /\ DerefFailedAt(i)
              /\ deref.reads = ExpectedReads(i)
              /\ DoneBefore(i)

C22_Witness ==
    /\ deref.pc = DerefReturned
    /\ DerefFailedAt(3)
    /\ HydratedFrom("structure", deref.slots["structure"], deref.in["structure"])
    /\ deref.in["structure"] = SlotOf("structure", "ref")
    /\ deref.in["viz"] = SlotOf("viz", "ref")
    /\ deref.slots["viz"] = deref.in["viz"]
    /\ deref.reads = <<RefPath("structure"), RefPath("transform")>>


\* C39: a DerefDataset that follows a successful DerefDataset on the same
\* dataset reads nothing from the store and leaves every slot, value and
\* address, as the first call left it.
C39_DerefIdempotent ==
    deref.calls > 1 =>
        /\ deref.reads = <<>>
        /\ deref.err = ""
        /\ deref.slots = deref.prev.slots

\* C39 witness: the second call has returned on a dataset whose structure,
\* transform and commit the first call loaded from the store, whose meta was
\* hydrated to begin with and whose viz is an empty value without address
C39_Witness ==
    /\ deref.calls = 2
    /\ deref.pc = DerefReturned
    /\ deref.prev.reads = <<RefPath("structure"), RefPath("transform"), RefPath("commit")>>
    /\ deref.slots["meta"] = SlotOf("meta", "hydrated")
    /\ deref.slots["viz"] = SlotOf("viz", "zero")
    /\ \A k \in {"structure", "transform", "commit"} :
          deref.slots[k].obj.fields = StoredSubdoc(k).fields
(***************************************************************************)
(* JSON documents.  A document is a tree: a string, a number, true, or an  *)
(* object whose members are kept in the order they are written in the      *)
(* text, so that two documents are equal exactly when their bytes are.     *)
(* NoBytes stands for the empty byte slice, which is not a document.       *)
(***************************************************************************)
JString(s) == [t |-> "string", s |-> s, n |-> 0, ms |-> <<>>]
JNumber(n) == [t |-> "number", s |-> "", n |-> n, ms |-> <<>>]
JTrue == [t |-> "true", s |-> "", n |-> 0, ms |-> <<>>]
JObject(ms) == [t |-> "object", s |-> "", n |-> 0, ms |-> ms]
NoBytes == [t |-> "", s |-> "", n |-> 0, ms |-> <<>>]

\* results of an encoder and of a decoder
Encoded(j) == [err |-> "", data |-> j]
EncodeError(e) == [err |-> e, data |-> NoBytes]
Decoded(v) == [err |-> "", v |-> v]

\* byte-wise order of the object keys that occur
LexOrder ==
    <<"a", "appVersion", "b", "checksum", "compression", "config", "constraints",
      "data", "description", "encoding", "entries", "format", "formatConfig",
      "headerRow", "kind", "length", "missingValue", "name", "pattern", "qri",
      "resources",
      "schema", "structure", "syntax", "title", "type">>

LexRank(key) == CHOOSE i \in 1..Len(LexOrder) : LexOrder[i] = key

\* encoding/json calling a Marshaler: bytes that are not a document are an error
jsonMarshaler(r, type) ==
    IF r.err # "" THEN r
    ELSE IF r.data = NoBytes
    THEN EncodeError("json: error calling MarshalJSON for type " \o type
                     \o ": unexpected end of JSON input")
    ELSE r

\* one field of a struct handed to json.Marshal: its key, whether omitempty
\* drops it, and its encoding
StructField(key, omitempty, zero, enc) ==
    [key |-> key, skip |-> omitempty /\ zero, enc |-> enc]

\* json.Marshal of a struct: the fields in declaration order, the first
\* error of a field's encoder is the error of the whole
MarshalStruct(fields) ==
    LET kept == SelectSeq(fields, LAMBDA f : ~f.skip)
        bad == {i \in 1..Len(kept) : kept[i].enc.err # ""}
    IN  IF bad # {}
        THEN EncodeError(kept[CHOOSE i \in bad : \A j \in bad : i <= j].enc.err)
        ELSE Encoded(JObject([i \in 1..Len(kept) |->
                                [key |-> kept[i].key, val |-> kept[i].enc.data]]))

\* maps: nil, or a set of key/value pairs with distinct keys
NilMap == [nil |-> TRUE, kv |-> {}]
MapOf(kv) == [nil |-> FALSE, kv |-> kv]
MapKeys(m) == {e.key : e \in m.kv}
MapAt(m, key) == (CHOOSE e \in m.kv : e.key = key).val

RECURSIVE SortedKeys(_)
\* json.Marshal of a map writes the keys in sorted order
SortedKeys(keys) ==
    IF keys = {} THEN <<>>
    ELSE LET k == CHOOSE x \in keys : \A y \in keys : LexRank(x) <= LexRank(y)
         IN <<k>> \o SortedKeys(keys \ {k})

\* json.Marshal of a map[string]interface{} holding strings
MarshalMap(m) ==
    LET ks == SortedKeys(MapKeys(m))
    IN  JObject([i \in 1..Len(ks) |-> [key |-> ks[i], val |-> JString(MapAt(m, ks[i]))]])

\* the member of an object json.Unmarshal stores for a key: the last one
HasMember(j, key) == \E i \in 1..Len(j.ms) : j.ms[i].key = key
MemberOf(j, key) ==
    j.ms[CHOOSE i \in 1..Len(j.ms) :
            /\ j.ms[i].key = key
            /\ \A i2 \in 1..Len(j.ms) : j.ms[i2].key = key => i2 <= i].val

\* json.Unmarshal into a string, an int, a map of strings
UnmarshalString(j, key) ==
    IF ~HasMember(j, key) THEN Decoded("")
    ELSE IF MemberOf(j, key).t = "string" THEN Decoded(MemberOf(j, key).s)
    ELSE [err |-> "json: cannot unmarshal " \o MemberOf(j, key).t \o " into Go value of type string",
          v |-> ""]

UnmarshalInt(j, key) ==
    IF ~HasMember(j, key) THEN Decoded(0)
    ELSE IF MemberOf(j, key).t = "number" THEN Decoded(MemberOf(j, key).n)
    ELSE [err |-> "json: cannot unmarshal " \o MemberOf(j, key).t \o " into Go value of type int",
          v |-> 0]

UnmarshalMap(j, key) ==
    IF ~HasMember(j, key) THEN Decoded(NilMap)
    ELSE LET o == MemberOf(j, key) IN
         IF o.t # "object" \/ \E i \in 1..Len(o.ms) : o.ms[i].val.t # "string"
         THEN [err |-> "json: cannot unmarshal " \o o.t \o " into Go value of type map",
               v |-> NilMap]
         ELSE Decoded(MapOf({[key |-> k, val |-> MemberOf(o, k).s] :
                                k \in {o.ms[i].key : i \in 1..Len(o.ms)}}))

\* the first error among the decoded fields ("" when there is none)
FirstError(results) ==
    LET bad == {i \in 1..Len(results) : results[i].err # ""}
    IN  IF bad = {} THEN "" ELSE results[CHOOSE i \in bad : \A j \in bad : i <= j].err

(***************************************************************************)
(* Addresses.  datastore.NewKey cleans the string it is given: a key       *)
(* always starts with "/", the empty string becomes the root key.          *)
(***************************************************************************)
StructurePath == "/map/QmStructure"
TransformPath == "/map/QmTransform"
ResourcePath == "/map/QmResource"

\* the strings that are keys already
Addresses == {StructurePath, TransformPath, ResourcePath}

NewKey(str) ==
    IF str = "" THEN "/"
    ELSE IF str \in Addresses \cup {"/"} THEN str
    ELSE "/" \o str

(***************************************************************************)
(* DataFormat.                                                             *)
(***************************************************************************)
UnknownDataFormat == "UnknownDataFormat"
CsvDataFormat == "CsvDataFormat"
JsonDataFormat == "JsonDataFormat"
JsonArrayDataFormat == "JsonArrayDataFormat"
XmlDataFormat == "XmlDataFormat"
XlsDataFormat == "XlsDataFormat"

DataFormats ==
    {UnknownDataFormat, CsvDataFormat, JsonDataFormat, JsonArrayDataFormat,
     XmlDataFormat, XlsDataFormat}

DataFormat_String(f) ==
    CASE f = CsvDataFormat -> "csv"
      [] f = JsonDataFormat -> "json"
      [] f = JsonArrayDataFormat -> "jsona"
      [] f = XmlDataFormat -> "xml"
      [] f = XlsDataFormat -> "xls"
      [] OTHER -> ""

ParseDataFormatString(s) ==
    CASE s = "" -> Decoded(UnknownDataFormat)
      [] s \in {".csv", "csv"} -> Decoded(CsvDataFormat)
      [] s \in {".json", "json"} -> Decoded(JsonDataFormat)
      [] s \in {".jsona", "jsona"} -> Decoded(JsonArrayDataFormat)
      [] s \in {".xml", "xml"} -> Decoded(XmlDataFormat)
      [] s \in {".xls", "xls"} -> Decoded(XlsDataFormat)
      [] OTHER -> [err |-> "invalid DataFormat " \o s, v |-> UnknownDataFormat]

\* `return nil, nil` for the unknown format
DataFormat_MarshalJSON(f) ==
    IF f = UnknownDataFormat THEN Encoded(NoBytes)
    ELSE Encoded(JString(DataFormat_String(f)))

DataFormat_UnmarshalJSON(j) ==
    IF j.t # "string"
    THEN [err |-> "Filed type should be a string, got " \o j.t, v |-> UnknownDataFormat]
    ELSE ParseDataFormatString(j.s)

(***************************************************************************)
(* Structure.                                                              *)
(***************************************************************************)
\* FormatConfig: nil or the options of the CSV format
NoFormatConfig == "nil"
CSVOptions == "CSVOptions{HeaderRow: true}"

\* FormatConfig.Map()
FormatConfig_Map(fc) == MapOf({[key |-> "headerRow", val |-> "true"]})

\* ParseFormatConfigMap: the options of the format, read from the map
ParseFormatConfigMap(f, m) ==
    IF f = CsvDataFormat /\ m = FormatConfig_Map(CSVOptions) THEN Decoded(CSVOptions)
    ELSE [err |-> "cannot parse configuration for format: " \o DataFormat_String(f),
          v |-> NoFormatConfig]

\* *jsonschema.RootSchema: nil or a schema
NoSchema == "nil"
ArraySchema == "RootSchema{type: array}"

RootSchema_MarshalJSON(sch) == Encoded(JObject(<<[key |-> "type", val |-> JString("array")]>>))

RootSchema_UnmarshalJSON(j) ==
    IF j = RootSchema_MarshalJSON(ArraySchema).data THEN Decoded(ArraySchema)
    ELSE [err |-> "error unmarshaling schema", v |-> NoSchema]

Structure ==
    [path |-> "", Checksum |-> "", Compression |-> "", Encoding |-> "", Entries |-> 0,
     Format |-> UnknownDataFormat, FormatConfig |-> NoFormatConfig, Kind |-> "",
     Length |-> 0, Schema |-> NoSchema]

\* NewStructureRef, field by field
Structure_NewRef(p) == [Structure EXCEPT !.Kind = KindStructure, !.path = p]

Structure_IsEmpty(s) ==
    /\ s.Checksum = ""
    /\ s.Compression = ""
    /\ s.Encoding = ""
    /\ s.Entries = 0
    /\ s.Format = UnknownDataFormat
    /\ s.FormatConfig = NoFormatConfig
    /\ s.Length = 0
    /\ s.Schema = NoSchema

\* json.Marshal(&_structure{...})
Structure_MarshalObject(s, kind, opt) ==
    MarshalStruct(<<
        StructField("checksum", TRUE, s.Checksum = "", Encoded(JString(s.Checksum))),
        StructField("compression", TRUE, s.Compression = "", Encoded(JString(s.Compression))),
        StructField("encoding", TRUE, s.Encoding = "", Encoded(JString(s.Encoding))),
        StructField("entries", TRUE, s.Entries = 0, Encoded(JNumber(s.Entries))),
        StructField("format", FALSE, FALSE,
                    jsonMarshaler(DataFormat_MarshalJSON(s.Format), "dataset.DataFormat")),
        StructField("formatConfig", TRUE, opt.nil \/ opt.kv = {}, Encoded(MarshalMap(opt))),
        StructField("kind", FALSE, FALSE, Encoded(JString(kind))),
        StructField("length", TRUE, s.Length = 0, Encoded(JNumber(s.Length))),
        StructField("schema", TRUE, s.Schema = NoSchema, RootSchema_MarshalJSON(s.Schema))>>)

Structure_MarshalJSON(s) ==
    IF s.path # "" /\ s.Encoding = "" /\ s.Schema = NoSchema
    THEN Encoded(JString(s.path))
    ELSE Structure_MarshalObject(s, IF s.Kind = "" THEN KindStructure ELSE s.Kind,
                                 IF s.FormatConfig # NoFormatConfig
                                 THEN FormatConfig_Map(s.FormatConfig) ELSE NilMap)

\* json.Unmarshal(data, _s) and the copy into *s
Structure_UnmarshalObject(j) ==
    LET checksum == UnmarshalString(j, "checksum")
        compression == UnmarshalString(j, "compression")
        encoding == UnmarshalString(j, "encoding")
        entries == UnmarshalInt(j, "entries")
        format == IF HasMember(j, "format") THEN DataFormat_UnmarshalJSON(MemberOf(j, "format"))
                  ELSE Decoded(UnknownDataFormat)
        opt == UnmarshalMap(j, "formatConfig")
        kind == UnmarshalString(j, "kind")
        length == UnmarshalInt(j, "length")
        schema == IF HasMember(j, "schema") THEN RootSchema_UnmarshalJSON(MemberOf(j, "schema"))
                  ELSE Decoded(NoSchema)
        err == FirstError(<<checksum, compression, encoding, entries, format, opt, kind,
                            length, schema>>)
        fmtCfg == IF opt.v.nil THEN Decoded(NoFormatConfig)
                  ELSE ParseFormatConfigMap(format.v, opt.v)
    IN  IF err # ""
        THEN [err |-> "error unmarshaling dataset structure from json: " \o err, v |-> Structure]
        ELSE IF fmtCfg.err # ""
        THEN [err |-> "error parsing structure formatConfig: " \o fmtCfg.err, v |-> Structure]
        ELSE Decoded([path |-> "", Checksum |-> checksum.v, Compression |-> compression.v,
                      Encoding |-> encoding.v, Entries |-> entries.v, Format |-> format.v,
                      FormatConfig |-> fmtCfg.v, Kind |-> kind.v, Length |-> length.v,
                      Schema |-> schema.v])

\* faulty variant: the string form is not tried
Structure_UnmarshalJSONObjectOnly(j) ==
    IF j.t # "object"
    THEN [err |-> "error unmarshaling dataset structure from json: not an object", v |-> Structure]
    ELSE Structure_UnmarshalObject(j)

Structure_UnmarshalJSON(j) ==
    IF j.t = "string" THEN Decoded([Structure EXCEPT !.path = NewKey(j.s)])
    ELSE IF j.t # "object"
    THEN [err |-> "error unmarshaling dataset structure from json: not an object", v |-> Structure]
    ELSE Structure_UnmarshalObject(j)

(***************************************************************************)
(* Transform, in its two revisions: the one with the Qri kind tag and the  *)
(* one of transform.go, which has no kind tag.                             *)
(***************************************************************************)
\* *Structure: nil or a pointer to a structure
NoStructure == [nil |-> TRUE, obj |-> Structure]
PtrTo(s) == [nil |-> FALSE, obj |-> s]

Transform ==
    [path |-> "", Qri |-> "", Syntax |-> "", AppVersion |-> "", Data |-> "",
     Structure |-> NoStructure, Config |-> NilMap, Resources |-> NilMap]

\* NewTransformRef, field by field
Transform_NewRef(p) == [Transform EXCEPT !.path = p]

Transform_IsEmpty(q) ==
    /\ q.Data = ""
    /\ q.Resources.nil
    /\ q.Syntax = ""
    /\ q.AppVersion = ""
    /\ q.Structure.nil
    /\ q.Config.nil

\* transform.go
TransformGo_IsEmpty(q) == q.Data = "" /\ q.Resources.nil

\* faulty variant: the struct is written in the order its fields are declared
Transform_MarshalJSONObjectAsDeclared(q) ==
    MarshalStruct(<<
        StructField("qri", TRUE, FALSE, Encoded(JString(IF q.Qri = "" THEN KindTransform ELSE q.Qri))),
        StructField("syntax", TRUE, q.Syntax = "", Encoded(JString(q.Syntax))),
        StructField("appVersion", TRUE, q.AppVersion = "", Encoded(JString(q.AppVersion))),
        StructField("data", TRUE, q.Data = "", Encoded(JString(q.Data))),
        StructField("structure", TRUE, q.Structure.nil,
                    jsonMarshaler(Structure_MarshalJSON(q.Structure.obj), "*dataset.Structure")),
        StructField("config", TRUE, q.Config.nil \/ q.Config.kv = {}, Encoded(MarshalMap(q.Config))),
        StructField("resources", TRUE, q.Resources.nil \/ q.Resources.kv = {},
                    Encoded(MarshalMap(q.Resources)))>>)

\* the datasets of Resources are references: each is written as its address
Transform_MarshalJSONObject(q) ==
    MarshalStruct(<<
        StructField("appVersion", TRUE, q.AppVersion = "", Encoded(JString(q.AppVersion))),
        StructField("config", TRUE, q.Config.nil \/ q.Config.kv = {}, Encoded(MarshalMap(q.Config))),
        StructField("data", TRUE, q.Data = "", Encoded(JString(q.Data))),
        StructField("qri", TRUE, FALSE, Encoded(JString(IF q.Qri = "" THEN KindTransform ELSE q.Qri))),
        StructField("resources", TRUE, q.Resources.nil \/ q.Resources.kv = {},
                    Encoded(MarshalMap(q.Resources))),
        StructField("structure", TRUE, q.Structure.nil,
                    jsonMarshaler(Structure_MarshalJSON(q.Structure.obj), "*dataset.Structure")),
        StructField("syntax", TRUE, q.Syntax = "", Encoded(JString(q.Syntax)))>>)

Transform_MarshalJSON(q) ==
    IF q.path # "" /\ Transform_IsEmpty(q) THEN Encoded(JString(q.path))
    ELSE Transform_MarshalJSONObject(q)

\* transform.go
TransformGo_MarshalJSON(q) ==
    IF q.path # "" /\ TransformGo_IsEmpty(q) THEN Encoded(JString(q.path))
    ELSE MarshalStruct(<<
        StructField("appVersion", TRUE, q.AppVersion = "", Encoded(JString(q.AppVersion))),
        StructField("config", TRUE, q.Config.nil \/ q.Config.kv = {}, Encoded(MarshalMap(q.Config))),
        StructField("data", TRUE, q.Data = "", Encoded(JString(q.Data))),
        StructField("resources", TRUE, q.Resources.nil \/ q.Resources.kv = {},
                    Encoded(MarshalMap(q.Resources))),
        StructField("structure", TRUE, q.Structure.nil,
                    jsonMarshaler(Structure_MarshalJSON(q.Structure.obj), "*dataset.Structure")),
        StructField("syntax", TRUE, q.Syntax = "", Encoded(JString(q.Syntax)))>>)

\* json.Unmarshal(data, _q) and the copy into *q; qri tells the revision
Transform_UnmarshalObject(j, qri) ==
    LET appVersion == UnmarshalString(j, "appVersion")
        config == UnmarshalMap(j, "config")
        data == UnmarshalString(j, "data")
        kind == IF qri THEN UnmarshalString(j, "qri") ELSE Decoded("")
        resources == UnmarshalMap(j, "resources")
        nested == IF HasMember(j, "structure")
                     THEN Structure_UnmarshalJSON(MemberOf(j, "structure"))
                     ELSE Decoded(Structure)
        syntax == UnmarshalString(j, "syntax")
        err == FirstError(<<appVersion, config, data, kind, resources, nested, syntax>>)
    IN  IF err # "" THEN [err |-> err, v |-> Transform]
        ELSE Decoded([path |-> "", Qri |-> kind.v, Syntax |-> syntax.v,
                      AppVersion |-> appVersion.v, Data |-> data.v,
                      Structure |-> IF HasMember(j, "structure") THEN PtrTo(nested.v)
                                    ELSE NoStructure,
                      Config |-> config.v, Resources |-> resources.v])

Transform_UnmarshalJSON(j) ==
    IF j.t = "string" THEN Decoded([Transform EXCEPT !.path = NewKey(j.s)])
    ELSE IF j.t # "object"
    THEN [err |-> "json: cannot unmarshal " \o j.t \o " into Go value of type dataset._transform",
          v |-> Transform]
    ELSE Transform_UnmarshalObject(j, TRUE)

\* transform.go
TransformGo_UnmarshalJSON(j) ==
    IF j.t = "string" THEN Decoded([Transform EXCEPT !.path = NewKey(j.s)])
    ELSE IF j.t # "object"
    THEN [err |-> "json: cannot unmarshal " \o j.t \o " into Go value of type dataset._transform",
          v |-> Transform]
    ELSE Transform_UnmarshalObject(j, FALSE)

(***************************************************************************)
(* Field.                                                                  *)
(***************************************************************************)
\* datatypes.Type: the unknown type is the zero value
UnknownType == "datatypes.Unknown"
StringType == "datatypes.String"

Type_String(ty) == IF ty = StringType THEN "string" ELSE ""

Type_MarshalJSON(ty) == Encoded(JString(Type_String(ty)))

Type_UnmarshalJSON(j) ==
    IF j.t = "string" /\ j.s = "string" THEN Decoded(StringType)
    ELSE [err |-> "invalid data type", v |-> UnknownType]

\* *FieldConstraints: nil or a pointer to constraints, of which Pattern is kept
NoConstraints == [nil |-> TRUE, Pattern |-> ""]
Constraints(pattern) == [nil |-> FALSE, Pattern |-> pattern]

\* interface{}: nil or a string
NoValue == [nil |-> TRUE, s |-> ""]
Value(s) == [nil |-> FALSE, s |-> s]

Field ==
    [Name |-> "", Type |-> UnknownType, MissingValue |-> NoValue, Format |-> "",
     Constraints |-> NoConstraints, Title |-> "", Description |-> ""]

Field_MarshalJSON(f) ==
    MarshalStruct(<<
        StructField("constraints", TRUE, f.Constraints.nil,
                    MarshalStruct(<<StructField("pattern", TRUE, f.Constraints.Pattern = "",
                                                Encoded(JString(f.Constraints.Pattern)))>>)),
        StructField("description", TRUE, f.Description = "", Encoded(JString(f.Description))),
        StructField("format", TRUE, f.Format = "", Encoded(JString(f.Format))),
        StructField("missingValue", TRUE, f.MissingValue.nil, Encoded(JString(f.MissingValue.s))),
        StructField("name", FALSE, FALSE, Encoded(JString(f.Name))),
        StructField("title", TRUE, f.Title = "", Encoded(JString(f.Title))),
        StructField("type", TRUE, f.Type = UnknownType, Type_MarshalJSON(f.Type))>>)

Field_UnmarshalJSON(j) ==
    IF j.t # "object"
    THEN [err |-> "json: cannot unmarshal " \o j.t \o " into Go value of type dataset._field",
          v |-> Field]
    ELSE
    LET constraints == IF ~HasMember(j, "constraints") THEN Decoded(NoConstraints)
                       ELSE IF MemberOf(j, "constraints").t # "object"
                       THEN [err |-> "json: cannot unmarshal into FieldConstraints",
                             v |-> NoConstraints]
                       ELSE LET pattern == UnmarshalString(MemberOf(j, "constraints"), "pattern")
                            IN [err |-> pattern.err, v |-> Constraints(pattern.v)]
        description == UnmarshalString(j, "description")
        format == UnmarshalString(j, "format")
        missingValue == IF ~HasMember(j, "missingValue") THEN Decoded(NoValue)
                        ELSE Decoded(Value(MemberOf(j, "missingValue").s))
        name == UnmarshalString(j, "name")
        title == UnmarshalString(j, "title")
        type == IF HasMember(j, "type") THEN Type_UnmarshalJSON(MemberOf(j, "type"))
                ELSE Decoded(UnknownType)
        err == FirstError(<<constraints, description, format, missingValue, name, title, type>>)
    IN  IF err # "" THEN [err |-> err, v |-> Field]
        ELSE Decoded([Name |-> name.v, Type |-> type.v, MissingValue |-> missingValue.v,
                      Format |-> format.v, Constraints |-> constraints.v, Title |-> title.v,
                      Description |-> description.v])

(***************************************************************************)
(* json.Marshal and json.Unmarshal of one value.  The value is a           *)
(* Structure, a Transform of either revision, a Field or a DataFormat.     *)
(***************************************************************************)
Types == {"Structure", "Transform", "TransformGo", "Field", "DataFormat"}

ZeroValue(type) ==
    CASE type = "Structure" -> Structure
      [] type \in {"Transform", "TransformGo"} -> Transform
      [] type = "Field" -> Field
      [] OTHER -> UnknownDataFormat

Marshal(type, v) ==
    CASE type = "Structure" -> Structure_MarshalJSON(v)
      [] type = "Transform" -> Transform_MarshalJSON(v)
      [] type = "TransformGo" -> TransformGo_MarshalJSON(v)
      [] type = "Field" -> Field_MarshalJSON(v)
      [] OTHER -> jsonMarshaler(DataFormat_MarshalJSON(v), "dataset.DataFormat")

Unmarshal(type, j) ==
    CASE type = "Structure" -> Structure_UnmarshalJSON(j)
      [] type = "Transform" -> Transform_UnmarshalJSON(j)
      [] type = "TransformGo" -> TransformGo_UnmarshalJSON(j)
      [] type = "Field" -> Field_UnmarshalJSON(j)
      [] OTHER -> DataFormat_UnmarshalJSON(j)

IsEmptyOf(type, v) ==
    CASE type = "Structure" -> Structure_IsEmpty(v)
      [] type = "Transform" -> Transform_IsEmpty(v)
      [] OTHER -> TransformGo_IsEmpty(v)

\* the structures at hand: FormatConfig goes with its format
Structures ==
    {s \in [path : {"", StructurePath}, Checksum : {"", "QmChecksum"},
            Compression : {"", "gzip"}, Encoding : {"", "utf-8"}, Entries : {0, 2},
            Format : {UnknownDataFormat, CsvDataFormat, JsonDataFormat},
            FormatConfig : {NoFormatConfig, CSVOptions}, Kind : {"", KindStructure},
            Length : {0, 9}, Schema : {NoSchema, ArraySchema}] :
        s.FormatConfig = CSVOptions => s.Format = CsvDataFormat}

NestedStructures ==
    {NoStructure, PtrTo(Structure), PtrTo(Structure_NewRef(StructurePath)),
     PtrTo([Structure EXCEPT !.Format = CsvDataFormat, !.Encoding = "utf-8"])}

ConfigMaps ==
    {NilMap, MapOf({}), MapOf({[key |-> "a", val |-> "1"]}),
     MapOf({[key |-> "a", val |-> "1"], [key |-> "b", val |-> "2"]})}

ResourceMaps ==
    {NilMap, MapOf({[key |-> "a", val |-> ResourcePath]}),
     MapOf({[key |-> "a", val |-> ResourcePath], [key |-> "b", val |-> StructurePath]})}

Transforms ==
    [path : {"", TransformPath}, Qri : {"", KindTransform}, Syntax : {"", "sql"},
     AppVersion : {"", "0.1.0"}, Data : {"", "select a from b"},
     Structure : NestedStructures, Config : ConfigMaps, Resources : ResourceMaps]

Fields ==
    [Name : {"", "col"}, Type : {UnknownType, StringType}, MissingValue : {NoValue, Value("NA")},
     Format : {"", "date"}, Constraints : {NoConstraints, Constraints(""), Constraints("x")},
     Title : {"", "Column"}, Description : {"", "first column"}]

\* documents that do not come out of MarshalJSON
RawDocuments ==
    {JString(StructurePath), JString(TransformPath), JString(""), JString("QmUnrooted"),
     JNumber(7), JObject(<<>>),
     JObject(<<[key |-> "kind", val |-> JString(KindStructure)],
               [key |-> "checksum", val |-> JString("QmChecksum")]>>),
     JObject(<<[key |-> "syntax", val |-> JString("sql")],
               [key |-> "data", val |-> JString("select a from b")]>>),
     JObject(<<[key |-> "format", val |-> JString("tsv")]>>),
     JObject(<<[key |-> "format", val |-> JNumber(1)]>>),
     JObject(<<[key |-> "format", val |-> JString(".csv")],
               [key |-> "formatConfig", val |-> MarshalMap(FormatConfig_Map(CSVOptions))]>>),
     JObject(<<[key |-> "name", val |-> JString("col")],
               [key |-> "name", val |-> JString("col2")]>>)}

CodecIdle ==
    [pc |-> "idle", type |-> "", raw |-> FALSE, v |-> "", enc |-> Encoded(NoBytes),
     dec |-> Decoded("")]

ValuesOf(type) ==
    CASE type = "Structure" -> Structures
      [] type = "Transform" -> Transforms
      [] type = "TransformGo" -> {q \in Transforms : q.Qri = ""}
      [] type = "Field" -> Fields
      [] OTHER -> DataFormats

CoInit ==
    \E type \in Types :
        \/ \E v \in ValuesOf(type) :
             codec = [CodecIdle EXCEPT !.pc = "value", !.type = type, !.v = v]
        \/ \E j \in RawDocuments :
             codec = [CodecIdle EXCEPT !.pc = "encoded", !.type = type, !.raw = TRUE,
                                       !.v = ZeroValue(type), !.enc = Encoded(j)]

\* json.Marshal(v)
JSONMarshal ==
    /\ codec.pc = "value"
    /\ codec' = [codec EXCEPT !.pc = "encoded", !.enc = Marshal(codec.type, codec.v)]
    /\ UNCHANGED <<deref, asg>>

\* json.Unmarshal(data, &v) on the bytes written
JSONUnmarshal ==
    /\ codec.pc = "encoded"
    /\ codec.enc.err = ""
    /\ codec' = [codec EXCEPT !.pc = "decoded", !.dec = Unmarshal(codec.type, codec.enc.data)]
    /\ UNCHANGED <<deref, asg>>

(***************************************************************************)
(* Properties of IsEmpty, MarshalJSON and UnmarshalJSON.                   *)
(***************************************************************************)
SubdocTypes == {"Structure", "Transform", "TransformGo"}

\* MarshalJSON has returned bytes for a value
Marshalled == ~codec.raw /\ codec.pc \in {"encoded", "decoded"} /\ codec.enc.err = ""

\* a field other than the address and the kind tag is set
Populated(type, v) ==
    IF type = "Structure"
    THEN \/ v.Checksum # ""
         \/ v.Compression # ""
         \/ v.Encoding # ""
         \/ v.Entries # 0
         \/ v.Format # UnknownDataFormat
         \/ v.FormatConfig # NoFormatConfig
         \/ v.Length # 0
         \/ v.Schema # NoSchema
    ELSE \/ v.Syntax # ""
         \/ v.AppVersion # ""
         \/ v.Data # ""
         \/ ~v.Structure.nil
         \/ ~v.Config.nil
         \/ ~v.Resources.nil

\* C23: a sub-document is written as a bare address string exactly when no
\* field other than its address is populated and it has an address; with any
\* other field populated it is written as an object, address or not.
C23_BareAddressExactlyWhenEmpty ==
    (codec.type \in SubdocTypes /\ Marshalled) =>
        (codec.enc.data.t = "string" <=>
            (~Populated(codec.type, codec.v) /\ codec.v.path # ""))

\* C24: IsEmpty() is true exactly when every field except the address is at
\* its zero value, the kind tag, syntax, app version, config and nested
\* structure included.
C24_IsEmptyIffAllZeroButAddress ==
    (codec.type \in SubdocTypes /\ ~codec.raw) =>
        (IsEmptyOf(codec.type, codec.v) <=>
            codec.v = [ZeroValue(codec.type) EXCEPT !.path = codec.v.path])

\* the value is what NewStructureRef / NewTransformRef returns for an address
IsNewRef(type, v) ==
    /\ v.path \in Addresses
    /\ v = IF type = "Structure" THEN Structure_NewRef(v.path) ELSE Transform_NewRef(v.path)

\* the fields the object form of a decoded sub-document must show
ObjectFormRead(type, j, v) ==
    /\ v.path = ""
    /\ type = "Structure" =>
         /\ HasMember(j, "checksum") => v.Checksum = MemberOf(j, "checksum").s
         /\ HasMember(j, "kind") => v.Kind = MemberOf(j, "kind").s
    /\ type # "Structure" =>
         /\ HasMember(j, "syntax") => v.Syntax = MemberOf(j, "syntax").s
         /\ HasMember(j, "data") => v.Data = MemberOf(j, "data").s

ReferenceOnly(type, v) ==
    type \in SubdocTypes /\ v.path # "" /\ ~Populated(type, v)

\* the value without its address, which the object form does not carry
WithoutPath(type, v) == IF type \in SubdocTypes THEN [v EXCEPT !.path = ""] ELSE v

\* C26: encoding never fails, and decode(encode(v)) equals v field by field;
\* only a reference comes back as the reference to the same address.
C26_RoundTrip ==
    ~codec.raw =>
        /\ codec.pc \in {"encoded", "decoded"} => codec.enc.err = ""
        /\ codec.pc = "decoded" =>
              /\ codec.dec.err = ""
              /\ IF ReferenceOnly(codec.type, codec.v)
                 THEN /\ codec.dec.v.path = codec.v.path
                      /\ ~Populated(codec.type, codec.dec.v)
                 ELSE codec.dec.v = WithoutPath(codec.type, codec.v)

RECURSIVE Canonical(_)
\* the keys of every object of the document are in strictly increasing order
Canonical(j) ==
    \A i \in 1..Len(j.ms) :
        /\ i > 1 => LexRank(j.ms[i - 1].key) < LexRank(j.ms[i].key)
        /\ Canonical(j.ms[i].val)

\* the keys of the optional fields of v that are at their zero value
ZeroOptional(type, v) ==
    CASE type = "Structure" ->
           {k \in {"checksum", "compression", "encoding", "entries", "formatConfig",
                   "length", "schema"} :
               \/ k = "checksum" /\ v.Checksum = ""
               \/ k = "compression" /\ v.Compression = ""
               \/ k = "encoding" /\ v.Encoding = ""
               \/ k = "entries" /\ v.Entries = 0
               \/ k = "formatConfig" /\ v.FormatConfig = NoFormatConfig
               \/ k = "length" /\ v.Length = 0
               \/ k = "schema" /\ v.Schema = NoSchema}
      [] type \in {"Transform", "TransformGo"} ->
           {k \in {"appVersion", "config", "data", "resources", "structure", "syntax"} :
               \/ k = "appVersion" /\ v.AppVersion = ""
               \/ k = "config" /\ (v.Config.nil \/ v.Config.kv = {})
               \/ k = "data" /\ v.Data = ""
               \/ k = "resources" /\ (v.Resources.nil \/ v.Resources.kv = {})
               \/ k = "structure" /\ v.Structure.nil
               \/ k = "syntax" /\ v.Syntax = ""}
      [] type = "Field" ->
           {k \in {"constraints", "description", "format", "missingValue", "title", "type"} :
               \/ k = "constraints" /\ v.Constraints.nil
               \/ k = "description" /\ v.Description = ""
               \/ k = "format" /\ v.Format = ""
               \/ k = "missingValue" /\ v.MissingValue.nil
               \/ k = "title" /\ v.Title = ""
               \/ k = "type" /\ v.Type = UnknownType}
      [] OTHER -> {}

\* C29: the object form of a Structure, a Transform and a Field lists its
\* keys in lexicographic order at every level, the optional fields that are
\* zero are absent, and the bytes are those any value with the same fields
\* encodes to.
C29_CanonicalEncoding ==
    (Marshalled /\ codec.type # "DataFormat" /\ codec.enc.data.t = "object") =>
        /\ Canonical(codec.enc.data)
        /\ \A k \in ZeroOptional(codec.type, codec.v) : ~HasMember(codec.enc.data, k)
        /\ \A w \in ValuesOf(codec.type) :
             WithoutPath(codec.type, w) = WithoutPath(codec.type, codec.v)
                 /\ Marshal(codec.type, w).data.t = "object"
             => Marshal(codec.type, w) = codec.enc

C29_Witness ==
    /\ codec.pc = "encoded"
    /\ codec.type = "Transform"
    /\ codec.enc.err = ""
    /\ codec.enc.data.t = "object"
    /\ Cardinality(codec.v.Config.kv) = 2
    /\ Cardinality(codec.v.Resources.kv) = 2
    /\ ~codec.v.Structure.nil
    /\ codec.v.Syntax = ""
    /\ codec.v.Data # ""

(***************************************************************************)
(* Assign of Structure and of the two Transform revisions.  The maps of a  *)
(* Transform live on a heap: Config and Resources hold the id of a map     *)
(* (0 is nil), so that sharing a map between two values can be told from   *)
(* copying it.                                                             *)
(***************************************************************************)
AssignTypes == {"Structure", "Transform", "TransformGo"}

\* most arguments of one Assign call
MaxArgs == 2

\* the receiver and the arguments, by position
Roles == <<"x", "a", "b", "c">>

RoleIdx(role) == CHOOSE i \in 1..Len(Roles) : Roles[i] = role

\* ids of the maps: Config and Resources of the receiver and of each
\* argument, then the maps Assign allocates
ConfigOf(role) == 2 * RoleIdx(role) - 1
ResourcesOf(role) == 2 * RoleIdx(role)
NewConfig == 2 * (MaxArgs + 1) + 1
NewResources == 2 * (MaxArgs + 1) + 2
MapIds == 1..NewResources

\* the shapes of the values at hand: which fields are set
StructureShapes == {"zero", "address", "stats", "format", "all"}
TransformShapes == {"zero", "scalars", "maps", "maps2", "nested", "nested2", "all"}

\* a structure of a shape; the values carry the role they belong to
StructureOf(shape, role) ==
    LET address == shape \in {"address", "all"}
        stats == shape \in {"stats", "all"}
        format == shape \in {"format", "all"}
    IN  [path |-> IF address THEN "/map/QmStructure-" \o role ELSE "",
         Checksum |-> IF address \/ stats THEN "QmChecksum-" \o role ELSE "",
         Compression |-> IF stats THEN "gzip-" \o role ELSE "",
         Encoding |-> IF format THEN "utf-8-" \o role ELSE "",
         Entries |-> IF stats THEN ConfigOf(role) ELSE 0,
         Format |-> IF format THEN (IF role = "a" THEN JsonDataFormat ELSE CsvDataFormat)
                    ELSE UnknownDataFormat,
         FormatConfig |-> IF format THEN "Options-" \o role ELSE NoFormatConfig,
         Kind |-> IF format THEN KindStructure ELSE "",
         Length |-> IF stats THEN 10 + ConfigOf(role) ELSE 0,
         Schema |-> IF shape = "all" THEN "RootSchema-" \o role ELSE NoSchema]

\* a transform of a shape, with the ids of its maps
TransformOf(shape, role, qri) ==
    LET scalars == shape \in {"scalars", "all"}
        maps == shape \in {"maps", "maps2", "all"}
    IN  [path |-> IF scalars THEN "/map/QmTransform-" \o role ELSE "",
         Qri |-> IF scalars /\ qri THEN KindTransform ELSE "",
         Syntax |-> IF scalars \/ shape = "nested" THEN "sql-" \o role ELSE "",
         AppVersion |-> IF scalars THEN "0.1-" \o role ELSE "",
         Data |-> IF scalars \/ shape = "nested2" THEN "select-" \o role ELSE "",
         Structure |-> CASE shape = "nested" -> PtrTo(StructureOf("stats", role))
                         [] shape = "nested2" -> PtrTo(StructureOf("format", role))
                         [] shape = "all" -> PtrTo(StructureOf("address", role))
                         [] OTHER -> NoStructure,
         Config |-> IF maps THEN ConfigOf(role) ELSE 0,
         Resources |-> IF maps THEN ResourcesOf(role) ELSE 0]

\* the pairs of the maps of a transform of a shape
MapContent(shape, role) ==
    CASE shape = "maps" -> {[key |-> "a", val |-> "a-" \o role]}
      [] shape = "maps2" -> {[key |-> "b", val |-> "b-" \o role]}
      [] shape = "all" -> {[key |-> "a", val |-> "a-" \o role],
                           [key |-> "b", val |-> "b-" \o role]}
      [] OTHER -> {}

NilArg == [nil |-> TRUE, shape |-> "zero"]
Arg(shape) == [nil |-> FALSE, shape |-> shape]

ShapesOf(type) == IF type = "Structure" THEN StructureShapes ELSE TransformShapes

ValueOf(type, shape, role) ==
    CASE type = "Structure" -> StructureOf(shape, role)
      [] type = "Transform" -> TransformOf(shape, role, TRUE)
      [] OTHER -> TransformOf(shape, role, FALSE)

\* the calls: a receiver and up to MaxArgs arguments, nil among them
AssignCalls ==
    {[type |-> type, x |-> x, args |-> args] :
        type \in AssignTypes, x \in StructureShapes \cup TransformShapes,
        args \in UNION {[1..n -> {NilArg} \cup {Arg(sh) : sh \in StructureShapes
                                                                \cup TransformShapes}] :
                          n \in 0..MaxArgs}}

ValidCall(c) ==
    /\ c.x \in ShapesOf(c.type)
    /\ \A i \in 1..Len(c.args) : c.args[i].shape \in ShapesOf(c.type)

\* the heap at the call: the maps of the receiver and of the arguments
HeapAt(c) ==
    [id \in MapIds |->
        IF c.type = "Structure" THEN {}
        ELSE IF id \in {ConfigOf("x"), ResourcesOf("x")} THEN MapContent(c.x, "x")
        ELSE IF \E i \in 1..Len(c.args) :
                    id \in {ConfigOf(Roles[i + 1]), ResourcesOf(Roles[i + 1])}
        THEN MapContent(c.args[(id - 1) \div 2].shape, Roles[(id + 1) \div 2])
        ELSE {}]

AssignIdle ==
    [pc |-> "idle", type |-> "", x0 |-> "", x |-> "", args |-> <<>>,
     heap0 |-> [id \in MapIds |-> {}], heap |-> [id \in MapIds |-> {}]]

AInit ==
    \E c \in {cc \in AssignCalls : ValidCall(cc)} :
        asg = [pc |-> "call", type |-> c.type,
               x0 |-> ValueOf(c.type, c.x, "x"), x |-> ValueOf(c.type, c.x, "x"),
               args |-> [i \in 1..Len(c.args) |->
                           [nil |-> c.args[i].nil,
                            v |-> ValueOf(c.type, c.args[i].shape, Roles[i + 1])]],
               heap0 |-> HeapAt(c), heap |-> HeapAt(c)]

\* `if st.F != zero { s.F = st.F }`
Field_Assign(own, theirs, zero) == IF theirs # zero THEN theirs ELSE own

\* one round of the loop of Structure.Assign
Structure_Assign(s, st) ==
    [path |-> Field_Assign(s.path, st.path, ""),
     Checksum |-> Field_Assign(s.Checksum, st.Checksum, ""),
     Compression |-> Field_Assign(s.Compression, st.Compression, ""),
     Encoding |-> Field_Assign(s.Encoding, st.Encoding, ""),
     Entries |-> Field_Assign(s.Entries, st.Entries, 0),
     Format |-> Field_Assign(s.Format, st.Format, UnknownDataFormat),
     FormatConfig |-> Field_Assign(s.FormatConfig, st.FormatConfig, NoFormatConfig),
     Kind |-> Field_Assign(s.Kind, st.Kind, ""),
     Length |-> Field_Assign(s.Length, st.Length, 0),
     Schema |-> Field_Assign(s.Schema, st.Schema, NoSchema)]

\* faulty variant: the map of the argument becomes the map of the receiver
ReceiverMapShared(own, theirs, fresh) == IF own = 0 THEN theirs ELSE own

\* `if q.Config == nil { q.Config = map[string]interface{}{} }`
ReceiverMap(own, theirs, fresh) == IF own = 0 THEN fresh ELSE own

\* `for key, val := range q2.Config { q.Config[key] = val }`
MapAssign(kv, kv2) == {e \in kv : e.key \notin {e2.key : e2 \in kv2}} \cup kv2

\* the merge of one map field: [id, heap]
MapField_Assign(h, own, theirs, fresh) ==
    IF theirs = 0 THEN [id |-> own, heap |-> h]
    ELSE LET id == ReceiverMap(own, theirs, fresh) IN
         [id |-> id, heap |-> [h EXCEPT ![id] = MapAssign(h[id], h[theirs])]]

\* faulty variant: the structure of the argument replaces the one of the receiver
NestedStructure_AssignWholesale(own, theirs) == IF theirs.nil THEN own ELSE theirs

\* `if q.Structure == nil { q.Structure = &Structure{} }; q.Structure.Assign(q2.Structure)`
NestedStructure_Assign(own, theirs) ==
    IF theirs.nil THEN own
    ELSE PtrTo(Structure_Assign(IF own.nil THEN Structure ELSE own.obj, theirs.obj))

\* one round of the loop of Transform.Assign: [heap, q]
Transform_Assign(h, q, q2) ==
    LET config == MapField_Assign(h, q.Config, q2.Config, NewConfig)
        resources == MapField_Assign(config.heap, q.Resources, q2.Resources, NewResources)
    IN  [heap |-> resources.heap,
         q |-> [path |-> Field_Assign(q.path, q2.path, ""),
                Syntax |-> Field_Assign(q.Syntax, q2.Syntax, ""),
                Config |-> config.id,
                AppVersion |-> Field_Assign(q.AppVersion, q2.AppVersion, ""),
                Qri |-> Field_Assign(q.Qri, q2.Qri, ""),
                Structure |-> NestedStructure_Assign(q.Structure, q2.Structure),
                Data |-> Field_Assign(q.Data, q2.Data, ""),
                Resources |-> resources.id]]

\* transform.go: one round of the loop of Transform.Assign
TransformGo_Assign(h, q, q2) ==
    LET config == MapField_Assign(h, q.Config, q2.Config, NewConfig)
        resources == MapField_Assign(config.heap, q.Resources, q2.Resources, NewResources)
    IN  [heap |-> resources.heap,
         q |-> [q EXCEPT !.path = Field_Assign(q.path, q2.path, ""),
                         !.Syntax = Field_Assign(q.Syntax, q2.Syntax, ""),
                         !.Config = config.id,
                         !.Structure = NestedStructure_Assign(q.Structure, q2.Structure),
                         !.Resources = resources.id]]

RECURSIVE AssignAll(_, _, _, _)
\* the loop over the arguments: nil arguments are skipped
AssignAll(type, h, x, args) ==
    IF args = <<>> THEN [heap |-> h, q |-> x]
    ELSE IF Head(args).nil THEN AssignAll(type, h, x, Tail(args))
    ELSE LET r == CASE type = "Structure" ->
                         [heap |-> h, q |-> Structure_Assign(x, Head(args).v)]
                    [] type = "Transform" -> Transform_Assign(h, x, Head(args).v)
                    [] OTHER -> TransformGo_Assign(h, x, Head(args).v)
         IN AssignAll(type, r.heap, r.q, Tail(args))

\* x.Assign(args...)
AssignCall ==
    /\ asg.pc = "call"
    /\ LET r == AssignAll(asg.type, asg.heap, asg.x, asg.args) IN
       asg' = [asg EXCEPT !.pc = "done", !.x = r.q, !.heap = r.heap]
    /\ UNCHANGED <<deref, codec>>

(***************************************************************************)
(* Properties of Assign.                                                   *)
(***************************************************************************)
\* the fields Assign copies as a whole
ScalarFields(type) ==
    IF type = "Structure"
    THEN {"path", "Checksum", "Compression", "Encoding", "Entries", "Format",
          "FormatConfig", "Kind", "Length", "Schema"}
    ELSE {"path", "Syntax", "AppVersion", "Data"}
         \cup (IF type = "Transform" THEN {"Qri"} ELSE {})

ZeroOf(type, f) == IF type = "Structure" THEN Structure[f] ELSE Transform[f]

\* the arguments that are not nil, in order
GivenArgs == SelectSeq(asg.args, LAMBDA a : ~a.nil)

RECURSIVE LastSet(_, _, _, _)
\* the value of field f in the last of vs in which it is not zero, else own
LastSet(vs, f, zero, own) ==
    IF vs = <<>> THEN own
    ELSE IF vs[Len(vs)][f] # zero THEN vs[Len(vs)][f]
    ELSE LastSet(SubSeq(vs, 1, Len(vs) - 1), f, zero, own)

\* C27: after x.Assign(a, b) each field of x is b's value if that is not
\* zero, else a's if not zero, else what x had: no non-zero field of an
\* argument is dropped (data, app version, syntax and address included), a
\* zero field overwrites nothing, nil arguments are skipped.
C27_AssignMergesLeftToRight ==
    asg.pc = "done" =>
        \A f \in ScalarFields(asg.type) :
            asg.x[f] = LastSet([i \in 1..Len(GivenArgs) |-> GivenArgs[i].v], f,
                               ZeroOf(asg.type, f), asg.x0[f])

MapFields == {"Config", "Resources"}

\* the maps of field m the arguments bring, in order
GivenMaps(m) ==
    LET with == SelectSeq(GivenArgs, LAMBDA a : a.v[m] # 0)
    IN  [i \in 1..Len(with) |-> with[i].v[m]]

RECURSIVE LastBinding(_, _, _)
\* the pairs for key k: of the last of the maps that has k, else of own
LastBinding(ids, k, own) ==
    IF ids = <<>> THEN {e \in own : e.key = k}
    ELSE IF \E e \in asg.heap0[ids[Len(ids)]] : e.key = k
    THEN {e \in asg.heap0[ids[Len(ids)]] : e.key = k}
    ELSE LastBinding(SubSeq(ids, 1, Len(ids) - 1), k, own)

OwnPairs(m) == IF asg.x0[m] = 0 THEN {} ELSE asg.heap0[asg.x0[m]]

RECURSIVE LastStructureField(_, _, _)
\* field f of the nested structures, merged in order
LastStructureField(ptrs, f, own) ==
    IF ptrs = <<>> THEN own
    ELSE IF ptrs[Len(ptrs)].obj[f] # Structure[f] THEN ptrs[Len(ptrs)].obj[f]
    ELSE LastStructureField(SubSeq(ptrs, 1, Len(ptrs) - 1), f, own)

GivenStructures ==
    LET with == SelectSeq(GivenArgs, LAMBDA a : ~a.v.Structure.nil)
    IN  [i \in 1..Len(with) |-> with[i].v.Structure]

\* C28: Transform.Assign merges Config and Resources key by key: the keys
\* only the receiver has are kept, the keys of an argument are added or
\* overwritten, the map of an argument never becomes the map of the receiver
\* and is never written to; the nested Structure is merged field by field
\* through Structure.Assign, never replaced as a whole.
C28_MapsMergeKeyByKey ==
    (asg.pc = "done" /\ asg.type # "Structure") =>
        /\ \A m \in MapFields :
             /\ \A i \in 1..Len(GivenMaps(m)) :
                  /\ asg.x[m] # GivenMaps(m)[i]
                  /\ asg.heap[GivenMaps(m)[i]] = asg.heap0[GivenMaps(m)[i]]
             /\ asg.x0[m] # 0 => asg.x[m] = asg.x0[m]
             /\ IF GivenMaps(m) = <<>>
                THEN asg.x[m] = asg.x0[m] /\ OwnPairs(m) = (IF asg.x[m] = 0 THEN {}
                                                             ELSE asg.heap[asg.x[m]])
                ELSE /\ asg.x[m] # 0
                     /\ asg.heap[asg.x[m]] =
                          UNION {LastBinding(GivenMaps(m), k, OwnPairs(m)) : k \in {"a", "b"}}
        /\ IF GivenStructures = <<>> THEN asg.x.Structure = asg.x0.Structure
           ELSE /\ ~asg.x.Structure.nil
                /\ \A f \in ScalarFields("Structure") :
                     asg.x.Structure.obj[f] =
                       LastStructureField(GivenStructures, f,
                                          IF asg.x0.Structure.nil THEN Structure[f]
                                          ELSE asg.x0.Structure.obj[f])

C28_Witness ==
    /\ asg.pc = "done"
    /\ asg.type = "Transform"
    /\ Len(asg.args) = 2
    /\ asg.x0.Config = 0
    /\ asg.x0.Structure = PtrTo(StructureOf("stats", "x"))
    /\ asg.args[1].v.Config = ConfigOf("a")
    /\ asg.args[2].v.Config = ConfigOf("b")
    /\ asg.x.Config = NewConfig
    /\ asg.args[1].v.Structure.nil
    /\ asg.heap[NewConfig] = {[key |-> "a", val |-> "a-b"], [key |-> "b", val |-> "b-b"]}
    /\ asg.heap[ConfigOf("a")] = {[key |-> "a", val |-> "a-a"]}
    /\ asg.x.Structure.obj.Checksum = "QmChecksum-b"
    /\ asg.x.Structure.obj.Compression = "gzip-x"

(***************************************************************************)
(* The analyzers and the fields of the shared Structure.                   *)
(***************************************************************************)
\* the fields an analyzer assigns between mu.Lock() and mu.Unlock()
WrittenBy(a) ==
    CASE a = "err" -> {"ErrCount"}
      [] a = "entry" -> {"Entries", "Depth"}
      [] a = "hash" -> {"Checksum", "Length"}

\* the fields dsio.NewEntryReader(ds.Structure, data) reads when an entry
\* analyzer starts, without the mutex: what tells how the body is laid out
ReadAtStart(a) == IF a = "hash" THEN {} ELSE {"Format", "FormatConfig", "Schema"}

\* the step is the assignment of analyzer a
WriteStepOf(a) == an[a].pc = "locked" /\ an'[a].pc = "unlock"

\* C30: an analyzer touches a field of the shared Structure that another
\* analyzer writes only while it holds the mutex; the three analyzers write
\* pairwise disjoint fields (ErrCount; Entries and Depth; Checksum and
\* Length); after the join the fields have the values the body gives,
\* whatever the order in which the analyzers finished.
C30_WritesUnderMutexOrderIndependent ==
    /\ [][structure' # structure =>
            \E a \in Analyzers :
                /\ WriteStepOf(a)
                /\ mu = a
                /\ \A f \in DOMAIN structure \ WrittenBy(a) : structure'[f] = structure[f]]_vars
    /\ [](\A a, b \in Analyzers :
            a # b => /\ WrittenBy(a) \cap WrittenBy(b) = {}
                     /\ ReadAtStart(a) \cap WrittenBy(b) = {})
    /\ []((Len(caller.signals) = 3 /\ ErrorSignals = {}) =>
            /\ structure.Entries = Len(body)
            /\ structure.Depth = entriesDepth(body, 1)
            /\ structure.Checksum = B58String(body)
            /\ structure.Length = Len(body)
            /\ structure.ErrCount \in 0..Len(body))

\* the hash analyzer holds the mutex and has written, the other two are
\* waiting for the mutex with their own results
C30_Witness ==
    /\ mu = "hash"
    /\ an["hash"].pc = "unlock"
    /\ an["entry"].pc = "lock"
    /\ an["err"].pc = "lock"
    /\ structure.Length = Len(body)
    /\ Len(body) = 2
    /\ structure.Entries = 0

(***************************************************************************)
(* WriteDataset: the pending-file counter and the replacement of slots.    *)
(***************************************************************************)
TopLevelIdx == NamedIdx(PackageFileDataset)

\* the names of the files whose completion event the consumer has processed
ProcessedNames == {adder.files[i].name : i \in adder.delivered}

\* the sub-document files of the write whose event is still to be processed
Outstanding == ExpectedNames \ ProcessedNames

\* the event consumer has been started (the prologue returned no error)
ConsumerStarted == wpc = "consume" \/ (wpc = "returned" /\ adder.delivered # {})

\* C31: while the top-level document is not yet added, fileTasks equals the
\* number of sub-document files (body, meta, structure, commit, scripts, and
\* the transform/viz documents, those promised for the second phase included)
\* whose completion event is still to be processed, and it is positive; it is
\* zero exactly from the event that completes the last of them (which is the
\* event that adds the top-level document) until the top-level document's own
\* event.
C31_CounterIsOutstandingAdditions ==
    ConsumerStarted =>
        IF TopLevelIdx = {}
        THEN /\ fileTasks = Cardinality(Outstanding)
             /\ fileTasks > 0
        ELSE /\ Outstanding = {}
             /\ fileTasks = IF TopLevelIdx \subseteq adder.delivered THEN -1 ELSE 0

\* C31 witness: a write with both scripts, after the event of the transform
\* script and before the event of the transform document it promised
C31_Witness ==
    /\ wpc = "consume"
    /\ InputScript("transform") # "" /\ InputScript("viz") # ""
    /\ transformScriptFilename \in ProcessedNames
    /\ PackageFileTransform \in Outstanding
    /\ vizScriptFilename \in Outstanding
    /\ fileTasks >= 4

\* the address the store reports for the document of kind k of this write
ExpectedDocAddr(k) ==
    IF InputScript(k) # ""
    THEN Addr(ExpectedScriptedDoc(k, Addr(input.objs[k].script)))
    ELSE Addr(MarshalJSON(k, Assign(k, ZeroObj, input.objs[k])).data)

\* the top-level document of this write: every present slot a reference to
\* the address of its own file, BodyPath the address of the body
ExpectedTopLevel ==
    DatasetMarshalJSON(
        [slots |-> [k \in Kinds |-> IF InputHas(k) THEN RefObj(k) ELSE 0],
         BodyPath |-> Addr(input.dataFile.data)],
        [i \in ObjIds |-> IF i > 10 THEN NewRef(KindOfObj(i), ExpectedDocAddr(KindOfObj(i)))
                          ELSE ZeroObj])

\* C32: in every completion order, once the event of a slot's own file has
\* been processed the slot of the working copy is a reference to the address
\* reported for that file (body: BodyPath), that address depends on the input
\* only, and the top-level document added is the same document.
C32_SlotsReplacedByOwnAddress ==
    ConsumerStarted =>
        /\ \A k \in Kinds : \A i \in NamedIdx(DocName(k)) \cap adder.delivered :
              /\ dsHeap[dsPtr].slots[k] = RefObj(k)
              /\ heap[RefObj(k)] = NewRef(k, Addr(adder.files[i].data))
              /\ Addr(adder.files[i].data) = ExpectedDocAddr(k)
        /\ \A i \in NamedIdx(input.dataFile.name) \cap adder.delivered :
              dsHeap[dsPtr].BodyPath = Addr(adder.files[i].data)
        /\ \A j \in TopLevelIdx : adder.files[j].data = ExpectedTopLevel

\* C32 witness: the top-level document of a write of all five sub-documents
\* was added after the viz script's event came before the transform script's
\* (viz.json was added before transform.json), the reverse of the order in
\* which the scripts were added
C32_Witness ==
    /\ TopLevelIdx # {}
    /\ \A k \in Kinds : InputHas(k)
    /\ \E v \in NamedIdx(PackageFileViz), q \in NamedIdx(PackageFileTransform),
          sv \in NamedIdx(vizScriptFilename), sq \in NamedIdx(transformScriptFilename) :
            v < q /\ sq < sv

\* C36: in WriteDataset the top-level document is added at most once and the
\* batch is closed once, in the pass of the loop that adds it: Close is called
\* only on a batch not yet closed, the top-level document is then the last
\* file of the batch, no file is added to a closed batch (the event of the
\* top-level document, which takes the counter to -1, adds nothing), and a
\* successful return leaves exactly one top-level document in a closed batch.
C36_TopLevelOnceThenClosedOnce ==
    [][/\ Cardinality(TopLevelIdx') <= 1
       /\ adder.closed => (adder'.closed /\ adder'.files = adder.files)
       /\ (fileTasks' = 0 /\ fileTasks # 0) => ~adder.closed
       /\ (~adder.closed /\ adder'.closed) =>
             /\ TopLevelIdx = {}
             /\ TopLevelIdx' = {Len(adder'.files)}
       /\ (wpc' = "returned" /\ werr' = "") =>
             (adder'.closed /\ Cardinality(TopLevelIdx') = 1)]_vars

\* C36 witness: a successful return after the event of the top-level
\* document took the counter below zero, in a write with both scripts
C36_Witness ==
    /\ wpc = "returned"
    /\ werr = ""
    /\ fileTasks = -1
    /\ adder.closed
    /\ InputScript("transform") # "" /\ InputScript("viz") # ""

\* the files a write can consist of: the body, the five documents, the two
\* scripts and the top-level document
MaxFiles == Cardinality(Kinds) + 4

\* the steps WriteDataset can still take: the prologue, one per event the
\* store has yet to deliver, and the end of the event stream
Remaining ==
    CASE wpc = "call" -> MaxFiles + 2
      [] wpc = "consume" -> MaxFiles + 1 - Cardinality(adder.delivered)
      [] wpc = "returned" -> 0

\* C38: with a store that emits one event for every file added and ends the
\* stream once the batch is closed and flushed, WriteDataset returns for every
\* input and every completion order.  While the consumer runs, an event is
\* outstanding or the stream of the closed batch is about to end, so it never
\* waits for an event that will not come; and every step takes the natural
\* number Remaining down, so no run goes on forever.
C38_WriteDatasetReturns ==
    /\ [](wpc = "consume" => (adder.delivered # FileIdx \/ adder.closed))
    /\ [](Remaining \in Nat /\ (Remaining = 0 <=> wpc = "returned"))
    /\ [][Remaining' < Remaining]_vars

\* C38 witness: the write of a dataset with all five sub-documents and both
\* scripts has returned without error after the event of every file
C38_Witness ==
    /\ wpc = "returned"
    /\ werr = ""
    /\ \A k \in Kinds : InputHas(k)
    /\ InputScript("transform") # "" /\ InputScript("viz") # ""
    /\ adder.delivered = FileIdx
    /\ Len(adder.files) = MaxFiles
(***************************************************************************)
(* prepareDataset: failing analyzers, the entry count, the end of tasks.   *)
(***************************************************************************)
\* the analyzer has sent, or is about to send, an error on done
Failed(a) == an[a].err # "" /\ an[a].pc \in {"send", "exit"}

\* a Write of the producer returns
ProducerWriteReturns == \E a \in Analyzers : PipeTransfer(a)

\* C33: after an analyzer has reported an error the read end of its pipe is
\* closed, so a Write of the producer on that pipe returns: the producer is
\* never at a Write on the pipe of a failed analyzer that cannot return.
C33_FailedAnalyzerPipeClosed ==
    \A a \in Analyzers :
        (Failed(a) /\ prod.pc = "write" /\ prod.pipe = PipeOf(a))
            => ENABLED ProducerWriteReturns

\* the shape analyzer has made its assignments
EntryWritten == an["entry"].pc \in {"unlock", "send", "exit"} /\ an["entry"].err = ""

\* the entry reader of the shape analyzer fails in this step, after it was
\* created
EntryReadFails ==
    /\ an["entry"].pc = "reading"
    /\ an["entry"].err = ""
    /\ an'["entry"].err # ""

\* C34: when the shape analyzer has made its assignments it has read the
\* whole body and Structure.Entries is the number of entries it read; when
\* its entry reader fails the error names the index of the failing entry (the
\* number of entries read before it), and from then on Structure.Entries and
\* Structure.Depth keep the values they had.
C34_EntriesCountedOrUntouched ==
    /\ [](EntryWritten =>
            /\ an["entry"].got = body
            /\ structure.Entries = Len(body))
    /\ [][EntryReadFails =>
            an'["entry"].err = "error reading values at entry "
                                  \o ToString(Len(an["entry"].got))]_vars
    /\ [][an["entry"].err # "" =>
            /\ structure'.Entries = structure.Entries
            /\ structure'.Depth = structure.Depth]_vars
    /\ [](an["entry"].err # "" => (structure.Entries = 0 /\ structure.Depth = 0))

\* C34 witness: the shape analyzer counted the two entries of a body
C34_Witness ==
    /\ EntryWritten
    /\ Len(body) = 2
    /\ structure.Entries = 2
    /\ structure.Depth > 1

\* C34 witness of the failure: the second entry could not be read while the
\* two other analyzers have made their assignments
C34_WitnessFailure ==
    /\ an["entry"].err = "error reading values at entry 1"
    /\ structure.Checksum # ""
    /\ structure.Entries = 0

\* the producer and the three analyzers have returned (or were never started)
TasksTerminated ==
    /\ prod.pc \in {"idle", "closed"}
    /\ \A a \in Analyzers : an[a].pc \in {"idle", "exit"}

\* C37: once prepareDataset has returned, with or without an error, the
\* producer and the three analyzers eventually terminate.
C37_TasksTerminate == (caller.pc = "returned") ~> TasksTerminated
(***************************************************************************)
(* Calls of the pure functions of the package.                             *)
(***************************************************************************)
PureIdle == [fn |-> "", pc |-> "idle", arg |-> "", out |-> ""]

(***************************************************************************)
(* AbstractColumnName / base26.                                            *)
(***************************************************************************)
\* largest index a name is computed for
MaxIndex == 1000

b26chars ==
    <<"a", "b", "c", "d", "e", "f", "g", "h", "i", "j", "k", "l", "m",
      "n", "o", "p", "q", "r", "s", "t", "u", "v", "w", "x", "y", "z">>

\* b26chars[i], the index counted from 0 as in Go
CharAt(i) == b26chars[i + 1]

RECURSIVE base26Cols(_)
\* the loop `for d != 0 { cols = append(cols, d%26); d = d / 26 }`
base26Cols(d) == IF d = 0 THEN <<>> ELSE <<d % 26>> \o base26Cols(d \div 26)

RECURSIVE base26Letters(_, _)
\* the loop over cols from index i down to 0: every column but the last one
\* written is lowered by one when it is positive
base26Letters(cols, i) ==
    IF i < 0 THEN ""
    ELSE (IF i # 0 /\ cols[i + 1] > 0 THEN CharAt(cols[i + 1] - 1) ELSE CharAt(cols[i + 1]))
         \o base26Letters(cols, i - 1)

base26(d) ==
    IF d = 0 THEN "a"
    ELSE LET cols == base26Cols(d) IN base26Letters(cols, Len(cols) - 1)

AbstractColumnName(i) == base26(i)

BInit ==
    \E i \in 0..MaxIndex :
        pureCall = [fn |-> "AbstractColumnName", pc |-> "call", arg |-> i, out |-> ""]

\* one call of AbstractColumnName
AbstractColumnNameCall ==
    /\ pureCall.fn = "AbstractColumnName"
    /\ pureCall.pc = "call"
    /\ pureCall' = [pureCall EXCEPT !.pc = "returned", !.out = AbstractColumnName(pureCall.arg)]

(***************************************************************************)
(* Properties of AbstractColumnName.                                       *)
(***************************************************************************)
RECURSIVE Power(_, _)
Power(b, n) == IF n = 0 THEN 1 ELSE b * Power(b, n - 1)

RECURSIVE NameOfLength(_, _)
\* the r-th name (from 0) among the names of n letters in the order aa..zz
NameOfLength(n, r) ==
    IF n = 0 THEN ""
    ELSE CharAt(r \div Power(26, n - 1)) \o NameOfLength(n - 1, r % Power(26, n - 1))

RECURSIVE BijectiveName(_, _)
\* the i-th name of the sequence a..z, aa..zz, aaa..zzz, ...: i counts from 0
\* within the names of n letters and longer
BijectiveName(i, n) ==
    IF i < Power(26, n) THEN NameOfLength(n, i) ELSE BijectiveName(i - Power(26, n), n + 1)

\* C35: the name of index i is the i-th name of the sequence a..z, aa..zz,
\* aaa..zzz, and no other index in 0..MaxIndex has the same name.
C35_BindNamesInOrderAndInjective ==
    pureCall.pc = "returned" =>
        /\ pureCall.out = BijectiveName(pureCall.arg, 1)
        /\ \A j \in 0..MaxIndex : j # pureCall.arg => AbstractColumnName(j) # pureCall.out
(***************************************************************************)
(* DataFormat: String, ParseDataFormatString and the JSON encoding, each   *)
(* applied to one input.                                                   *)
(***************************************************************************)
\* the names of the table of ParseDataFormatString, other spellings of them
\* and other names, each bare and behind a dot, two dots, a space or a letter
FormatStrings ==
    {p \o n : p \in {"", ".", "..", " ", "x"},
              n \in {"", "csv", "json", "jsona", "xml", "xls", "CSV", "js", "cbor", "txt"}}

NoResult == [s |-> "", parsed |-> Decoded(UnknownDataFormat),
             enc |-> Encoded(NoBytes), dec |-> Decoded(UnknownDataFormat)]

FInit ==
    \/ \E s \in FormatStrings :
          pureCall = [fn |-> "ParseDataFormatString", pc |-> "call", arg |-> s, out |-> NoResult]
    \/ \E f \in DataFormats, fn \in {"String", "MarshalJSON"} :
          pureCall = [fn |-> fn, pc |-> "call", arg |-> f, out |-> NoResult]

\* ParseDataFormatString(s)
ParseCall ==
    /\ pureCall.fn = "ParseDataFormatString"
    /\ pureCall.pc = "call"
    /\ pureCall' = [pureCall EXCEPT !.pc = "returned",
                                    !.out.parsed = ParseDataFormatString(pureCall.arg)]

\* ParseDataFormatString(f.String())
StringCall ==
    /\ pureCall.fn = "String"
    /\ pureCall.pc = "call"
    /\ LET s == DataFormat_String(pureCall.arg) IN
       pureCall' = [pureCall EXCEPT !.pc = "returned", !.out.s = s,
                                    !.out.parsed = ParseDataFormatString(s)]

\* json.Marshal(f) and, when it gave bytes, json.Unmarshal of them into a
\* DataFormat
MarshalCall ==
    /\ pureCall.fn = "MarshalJSON"
    /\ pureCall.pc = "call"
    /\ LET enc == jsonMarshaler(DataFormat_MarshalJSON(pureCall.arg), "dataset.DataFormat") IN
       pureCall' = [pureCall EXCEPT !.pc = "returned", !.out.enc = enc,
                                    !.out.dec = IF enc.err = ""
                                                THEN DataFormat_UnmarshalJSON(enc.data)
                                                ELSE @]

(***************************************************************************)
(* Properties of DataFormat.                                               *)
(***************************************************************************)
FormatReturned(fn) == pureCall.fn = fn /\ pureCall.pc = "returned"

\* the names a format is written with
FormatNames == {DataFormat_String(f) : f \in DataFormats \ {UnknownDataFormat}}

\* the strings of the table of ParseDataFormatString
FormatTable == {""} \cup FormatNames \cup {"." \o n : n \in FormatNames}

\* ParseDataFormatString(f.String()) is f, without error
StringParses ==
    FormatReturned("String") => pureCall.out.parsed = Decoded(pureCall.arg)

\* the dotted form of a name parses to the format of the name; a string
\* outside the table gives an error and UnknownDataFormat
ParsesByTable ==
    FormatReturned("ParseDataFormatString") =>
        /\ pureCall.arg \in FormatNames =>
              /\ pureCall.out.parsed.err = ""
              /\ DataFormat_String(pureCall.out.parsed.v) = pureCall.arg
              /\ ParseDataFormatString("." \o pureCall.arg) = pureCall.out.parsed
        /\ pureCall.arg \notin FormatTable =>
              /\ pureCall.out.parsed.err # ""
              /\ pureCall.out.parsed.v = UnknownDataFormat

\* the JSON encoding is a JSON string that decodes to the same format
EncodesAsString ==
    FormatReturned("MarshalJSON") =>
        /\ pureCall.out.enc.err = ""
        /\ pureCall.out.enc.data.t = "string"
        /\ pureCall.out.dec = Decoded(pureCall.arg)

\* C40: for every DataFormat f, ParseDataFormatString(f.String()) is f
\* without error; the dotted form of a name parses like the name; a string
\* outside the table yields an error and UnknownDataFormat; and the JSON
\* encoding of every DataFormat, the unknown format included, is a JSON
\* string that decodes to the same value.
C40_DataFormatRoundTrips ==
    /\ StringParses
    /\ ParsesByTable
    /\ EncodesAsString
YIdle ==
    /\ deref = DerefIdle
    /\ codec = CodecIdle
    /\ asg = AssignIdle
    /\ pureCall = PureIdle

(***************************************************************************)
(* Specifications.                                                         *)
(***************************************************************************)
InitWrite ==
    /\ pinput = [df |-> FALSE, PreviousPath |-> "", dfBody |-> <<>>, prevBody |-> <<1>>]
    /\ PInit
    /\ WInit
    /\ clean = CleanIdle
    /\ create = CreateIdle
    /\ load = LoadIdle
    /\ YIdle

NextWrite ==
    \/ WriteDatasetCall /\ UNCHANGED <<pvars, xvars, yvars, zvars>>
    \/ ConsumeAdded /\ UNCHANGED <<pvars, xvars, yvars, zvars>>
    \/ AddedClosed /\ UNCHANGED <<pvars, xvars, yvars, zvars>>

SpecWrite == InitWrite /\ [][NextWrite]_vars

InitPrepare ==
    /\ input = WriteInput(Absent, Absent, Absent, Absent, Absent, "")
    /\ WInit
    /\ PInit
    /\ clean = CleanIdle
    /\ create = CreateIdle
    /\ load = LoadIdle
    /\ YIdle

NextPrepare ==
    \/ PrepareCall /\ UNCHANGED <<wvars, xvars, yvars, zvars>>
    \/ ProducerRead /\ UNCHANGED <<wvars, xvars, yvars, zvars>>
    \/ ProducerClose /\ UNCHANGED <<wvars, xvars, yvars, zvars>>
    \/ \E a \in Analyzers : AnalyzerStart(a) /\ UNCHANGED <<wvars, xvars, yvars, zvars>>
    \/ \E a \in Analyzers : PipeTransfer(a) /\ UNCHANGED <<wvars, xvars, yvars, zvars>>
    \/ \E a \in Analyzers : AnalyzerEOF(a) /\ UNCHANGED <<wvars, xvars, yvars, zvars>>
    \/ \E a \in Analyzers : AnalyzerLock(a) /\ UNCHANGED <<wvars, xvars, yvars, zvars>>
    \/ \E a \in Analyzers : AnalyzerWrite(a) /\ UNCHANGED <<wvars, xvars, yvars, zvars>>
    \/ \E a \in Analyzers : AnalyzerUnlock(a) /\ UNCHANGED <<wvars, xvars, yvars, zvars>>
    \/ \E a \in Analyzers : SendDone(a) /\ UNCHANGED <<wvars, xvars, yvars, zvars>>
    \/ CommitAndSign /\ UNCHANGED <<wvars, xvars, yvars, zvars>>

SpecPrepare == InitPrepare /\ [][NextPrepare]_vars

\* the Go scheduler runs every goroutine that can take a step
FairSpecPrepare ==
    /\ SpecPrepare
    /\ WF_vars(NextPrepare)

InitClean ==
    /\ input = WriteInput(Absent, Absent, Absent, Absent, Absent, "")
    /\ pinput = [df |-> FALSE, PreviousPath |-> "", dfBody |-> <<>>, prevBody |-> <<1>>]
    /\ WInit
    /\ PInit
    /\ CInit
    /\ create = CreateIdle
    /\ load = LoadIdle
    /\ YIdle

NextClean == CleanCall /\ UNCHANGED <<wvars, pvars, create, load, yvars, zvars>>

SpecClean == InitClean /\ [][NextClean]_vars

InitCreate ==
    /\ input = WriteInput(Absent, Absent, Absent, Absent, Absent, "")
    /\ pinput = [df |-> FALSE, PreviousPath |-> "", dfBody |-> <<>>, prevBody |-> <<1>>]
    /\ WInit
    /\ PInit
    /\ clean = CleanIdle
    /\ CrInit
    /\ load = LoadIdle
    /\ YIdle

NextCreate ==
    \/ CheckKey /\ UNCHANGED <<wvars, pvars, clean, load, yvars, zvars>>
    \/ DerefStep /\ UNCHANGED <<wvars, pvars, clean, load, yvars, zvars>>
    \/ ValidateStep /\ UNCHANGED <<wvars, pvars, clean, load, yvars, zvars>>
    \/ PrepareArgs /\ UNCHANGED <<wvars, pvars, clean, load, yvars, zvars>>
    \/ AnalyzeStep /\ UNCHANGED <<wvars, pvars, clean, load, yvars, zvars>>
    \/ SynthesizeStep /\ UNCHANGED <<wvars, pvars, clean, load, yvars, zvars>>
    \/ SignStep /\ UNCHANGED <<wvars, pvars, clean, load, yvars, zvars>>
    \/ WriteStep /\ UNCHANGED <<wvars, pvars, clean, load, yvars, zvars>>

SpecCreate == InitCreate /\ [][NextCreate]_vars

InitLoad ==
    /\ input = WriteInput(Absent, Absent, Absent, Absent, Absent, "")
    /\ pinput = [df |-> FALSE, PreviousPath |-> "", dfBody |-> <<>>, prevBody |-> <<1>>]
    /\ WInit
    /\ PInit
    /\ clean = CleanIdle
    /\ create = CreateIdle
    /\ LInit
    /\ YIdle

NextLoad ==
    \/ FirstFetch /\ UNCHANGED <<wvars, pvars, clean, create, yvars, zvars>>
    \/ Retry /\ UNCHANGED <<wvars, pvars, clean, create, yvars, zvars>>
    \/ Decode /\ UNCHANGED <<wvars, pvars, clean, create, yvars, zvars>>

SpecLoad == InitLoad /\ [][NextLoad]_vars


InitDeref ==
    /\ input = WriteInput(Absent, Absent, Absent, Absent, Absent, "")
    /\ pinput = [df |-> FALSE, PreviousPath |-> "", dfBody |-> <<>>, prevBody |-> <<1>>]
    /\ WInit
    /\ PInit
    /\ clean = CleanIdle
    /\ create = CreateIdle
    /\ load = LoadIdle
    /\ DInit
    /\ codec = CodecIdle
    /\ asg = AssignIdle
    /\ pureCall = PureIdle

NextDeref ==
    \/ DerefDatasetMeta /\ UNCHANGED <<wvars, pvars, xvars, zvars>>
    \/ DerefDatasetStructure /\ UNCHANGED <<wvars, pvars, xvars, zvars>>
    \/ DerefDatasetTransform /\ UNCHANGED <<wvars, pvars, xvars, zvars>>
    \/ DerefDatasetViz /\ UNCHANGED <<wvars, pvars, xvars, zvars>>
    \/ DerefDatasetCommit /\ UNCHANGED <<wvars, pvars, xvars, zvars>>
    \/ DerefDatasetAgain /\ UNCHANGED <<wvars, pvars, xvars, zvars>>

SpecDeref == InitDeref /\ [][NextDeref]_vars

InitCodec ==
    /\ input = WriteInput(Absent, Absent, Absent, Absent, Absent, "")
    /\ pinput = [df |-> FALSE, PreviousPath |-> "", dfBody |-> <<>>, prevBody |-> <<1>>]
    /\ WInit
    /\ PInit
    /\ clean = CleanIdle
    /\ create = CreateIdle
    /\ load = LoadIdle
    /\ deref = DerefIdle
    /\ CoInit
    /\ asg = AssignIdle
    /\ pureCall = PureIdle

NextCodec ==
    \/ JSONMarshal /\ UNCHANGED <<wvars, pvars, xvars, zvars>>
    \/ JSONUnmarshal /\ UNCHANGED <<wvars, pvars, xvars, zvars>>

SpecCodec == InitCodec /\ [][NextCodec]_vars

InitAssign ==
    /\ input = WriteInput(Absent, Absent, Absent, Absent, Absent, "")
    /\ pinput = [df |-> FALSE, PreviousPath |-> "", dfBody |-> <<>>, prevBody |-> <<1>>]
    /\ WInit
    /\ PInit
    /\ clean = CleanIdle
    /\ create = CreateIdle
    /\ load = LoadIdle
    /\ deref = DerefIdle
    /\ codec = CodecIdle
    /\ AInit
    /\ pureCall = PureIdle

NextAssign == AssignCall /\ UNCHANGED <<wvars, pvars, xvars, zvars>>

SpecAssign == InitAssign /\ [][NextAssign]_vars


InitNames ==
    /\ input = WriteInput(Absent, Absent, Absent, Absent, Absent, "")
    /\ pinput = [df |-> FALSE, PreviousPath |-> "", dfBody |-> <<>>, prevBody |-> <<1>>]
    /\ WInit
    /\ PInit
    /\ clean = CleanIdle
    /\ create = CreateIdle
    /\ load = LoadIdle
    /\ deref = DerefIdle
    /\ codec = CodecIdle
    /\ asg = AssignIdle
    /\ BInit

NextNames == AbstractColumnNameCall /\ UNCHANGED <<wvars, pvars, xvars, yvars>>

SpecNames == InitNames /\ [][NextNames]_vars

InitFormat ==
    /\ input = WriteInput(Absent, Absent, Absent, Absent, Absent, "")
    /\ pinput = [df |-> FALSE, PreviousPath |-> "", dfBody |-> <<>>, prevBody |-> <<1>>]
    /\ WInit
    /\ PInit
    /\ clean = CleanIdle
    /\ create = CreateIdle
    /\ load = LoadIdle
    /\ deref = DerefIdle
    /\ codec = CodecIdle
    /\ asg = AssignIdle
    /\ FInit

NextFormat ==
    \/ ParseCall /\ UNCHANGED <<wvars, pvars, xvars, yvars>>
    \/ StringCall /\ UNCHANGED <<wvars, pvars, xvars, yvars>>
    \/ MarshalCall /\ UNCHANGED <<wvars, pvars, xvars, yvars>>

SpecFormat == InitFormat /\ [][NextFormat]_vars
====
